---- MODULE Spec2Model ----
(***************************************************************************)
(* Model of the resilient multi-tier request pipeline of GradioNL2SQL:     *)
(* the query result cache, the schema cache, the airplane-mode router and  *)
(* SQL generator, and IntelligentText2SQLAgent.process_query_mode.         *)
(*                                                                         *)
(* Text is modelled as a sequence of one-character strings, so that        *)
(* lower(), strip(), substring tests and the regular expressions of the    *)
(* source are computed, not assumed.                                       *)
(***************************************************************************)
EXTENDS Integers, Sequences, FiniteSets, TLC

\* ---------------------------------------------------------------------- state
VARIABLES
  now,           \* time.time(), in seconds
  \* IntelligentText2SQLAgent
  query_cache,   \* QueryResultCache._query_cache: key -> (result, timestamp)
  schema_cache,  \* LLMSchemaAnalystTool._schema_cache
  pc,            \* where process_query_mode stands: idle, cache, fast, full,
                 \* airplane, done, raised
  cur_query,     \* the request being processed
  cur_result,    \* the result process_query_mode is about to return
  cur_calls,     \* collaborator calls made for the request
  trace,         \* the stages run for the request and whether each succeeded
  lookup_at,     \* when the request's cache lookup was made
  last_call,     \* the previous finished call: request, result, start time
  \* QueryResultCache on its own
  cache_op,      \* the last cache operation, its arguments and what it returned
  \* EnterpriseSchemaCache
  ent_cache,     \* EnterpriseSchemaCache._cache, in insertion order
  ent_op,        \* the last schema cache operation and what it returned
  \* AirplaneModeSQLGenerator
  gen_in,        \* the arguments: query text and tables
  gen_out,       \* the last generation and what it returned
  \* CircuitBreaker
  breaker,       \* state, failure_count, last_failure_time
  lock,          \* CircuitBreaker._lock: the caller that holds it, or 0
  threads,       \* each caller of CircuitBreaker.call: where it stands
  brk_op,        \* the last step of a call and the breaker before it
  \* EnterpriseSchemaAnalyst._get_schema_cached
  getter,        \* the caller of _get_schema_cached: where it stands
  refresh,       \* background refresh tasks of the cache's executor, in
                 \* the order of their submission
  prov_op,       \* the last step of _get_schema_cached or of a refresh
  \* QueryResultCache shared by request workers
  workers,       \* each worker: the cache operation it is in and where
  \* one call of a function of the agent or the orchestrator
  fun_in,        \* its arguments
  fun_out,       \* what it returned
  \* IntelligentText2SQLAgent._iterative_refinement_approach
  retry,         \* the loop: iteration, attempts, errors, calls made, result
  \* QueryResultCache and the result objects of its callers
  heap,          \* the dicts and row lists that exist, by identity
  ref_cache,     \* _query_cache: key -> (dict, timestamp)
  held,          \* the dicts a caller holds
  ref_op         \* the last step

pipeline_vars ==
  <<query_cache, schema_cache, pc, cur_query, cur_result, cur_calls, trace, lookup_at,
    last_call>>
ent_vars == <<ent_cache, ent_op>>
gen_vars == <<gen_in, gen_out>>
brk_vars == <<breaker, lock, threads, brk_op>>
prov_vars == <<getter, refresh, prov_op>>
conc_vars == <<workers>>
fun_vars == <<fun_in, fun_out>>
retry_vars == <<retry>>
ref_vars == <<heap, ref_cache, held, ref_op>>
vars ==
  <<now, pipeline_vars, cache_op, ent_vars, gen_vars, brk_vars, prov_vars, conc_vars,
    fun_vars, retry_vars, ref_vars>>

\* ------------------------------------------------------------------ bounds

\* -------------------------------------------------------------------- text
UpperLetters == <<"A","B","C","D","E","F","G","H","I","J","K","L","M","N","O","P","Q","R","S","T","U","V","W","X","Y","Z">>
LowerLetters == <<"a","b","c","d","e","f","g","h","i","j","k","l","m","n","o","p","q","r","s","t","u","v","w","x","y","z">>
Digits == <<"0","1","2","3","4","5","6","7","8","9">>
Whitespace == {" ", "\t", "\n"}

Range(f) == {f[i] : i \in DOMAIN f}

\* str.lower() on one character
LowerChar(c) ==
  IF c \in Range(UpperLetters)
    THEN LowerLetters[CHOOSE i \in DOMAIN UpperLetters : UpperLetters[i] = c]
    ELSE c

\* str.lower()
Lower(s) == [i \in DOMAIN s |-> LowerChar(s[i])]

\* str.strip()
Strip(s) ==
  LET keep == {i \in DOMAIN s : s[i] \notin Whitespace}
  IN  IF keep = {} THEN <<>>
      ELSE LET lo == CHOOSE i \in keep : \A j \in keep : i <= j
               hi == CHOOSE i \in keep : \A j \in keep : i >= j
           IN  SubSeq(s, lo, hi)

\* "sub in s"
Contains(s, sub) ==
  \E i \in 1..(Len(s) - Len(sub) + 1) : SubSeq(s, i, i + Len(sub) - 1) = sub

\* s.startswith(p)
StartsWith(s, p) == Len(p) <= Len(s) /\ SubSeq(s, 1, Len(p)) = p

\* any(x in s for x in items)
ContainsAny(s, items) == \E k \in DOMAIN items : Contains(s, items[k])

\* s.startswith((p1, p2, ...))
StartsWithAny(s, ps) == \E k \in DOMAIN ps : StartsWith(s, ps[k])

\* ------------------------------------------------------- regular expressions
\* The subset of Python's re the source uses: literals, \s+ \s* \w+ .* ,
\* (a|b), (x)? and $.  Ends(r, s, i) is the set of positions j such that r
\* matches s[i..j-1].
IsSpace(c) == c \in Whitespace
IsWord(c) ==
  \/ c \in Range(LowerLetters) \/ c \in Range(UpperLetters)
  \/ c \in Range(Digits) \/ c = "_" \/ c = "U+00E9"
InClass(cls, c) ==
  CASE cls = "s" -> IsSpace(c)
    [] cls = "w" -> IsWord(c)
    [] OTHER -> TRUE

Lit(t) == [t |-> "lit", s |-> t, c |-> "", n |-> 0, rs |-> <<>>]
Many(cls, min) == [t |-> "cls", s |-> <<>>, c |-> cls, n |-> min, rs |-> <<>>]
Opt(r) == [t |-> "opt", s |-> <<>>, c |-> "", n |-> 0, rs |-> <<r>>]
Alt(rs) == [t |-> "alt", s |-> <<>>, c |-> "", n |-> 0, rs |-> rs]
Cat(rs) == [t |-> "cat", s |-> <<>>, c |-> "", n |-> 0, rs |-> rs]
EndOfText == [t |-> "end", s |-> <<>>, c |-> "", n |-> 0, rs |-> <<>>]
\* x? on a literal whose last character is optional, e.g. customers?
LitOpt(t, final) == Cat(<<Lit(t), Opt(Lit(<<final>>))>>)

\* length of the longest run of class characters starting at i
RECURSIVE RunLen(_, _, _)
RunLen(cls, s, i) ==
  IF i <= Len(s) /\ InClass(cls, s[i]) THEN 1 + RunLen(cls, s, i + 1) ELSE 0

RECURSIVE Ends(_, _, _)
RECURSIVE CatEnds(_, _, _, _)
CatEnds(rs, k, s, from) ==
  IF k > Len(rs) THEN from
  ELSE CatEnds(rs, k + 1, s, UNION {Ends(rs[k], s, i) : i \in from})
Ends(r, s, i) ==
  CASE r.t = "lit" ->
         IF StartsWith(SubSeq(s, i, Len(s)), r.s) THEN {i + Len(r.s)} ELSE {}
    [] r.t = "cls" -> {i + k : k \in r.n..RunLen(r.c, s, i)}
    [] r.t = "opt" -> {i} \cup Ends(r.rs[1], s, i)
    [] r.t = "alt" -> UNION {Ends(r.rs[k], s, i) : k \in DOMAIN r.rs}
    [] r.t = "cat" -> CatEnds(r.rs, 1, s, {i})
    [] r.t = "end" -> IF i = Len(s) + 1 THEN {i} ELSE {}

\* re.match(r, s) and re.search(r, s)
ReMatch(r, s) == Ends(r, s, 1) # {}
ReSearch(r, s) == \E i \in 1..(Len(s) + 1) : Ends(r, s, i) # {}

\* ------------------------------------------------- agent: query classification
\* IntelligentText2SQLAgent._is_simple_query: complex_indicators
complex_indicators ==
  << <<"j","o","i","n">>, <<"g","r","o","u","p"," ","b","y">>, <<"o","r","d","e","r"," ","b","y">>, <<"h","a","v","i","n","g">>, <<"u","n","i","o","n">>, <<"s","u","b","q","u","e","r","y">>, <<"n","e","s","t","e","d">>,
     <<"s","o","r","t","e","d"," ","b","y">>, <<"s","o","r","t"," ","b","y">>, <<"a","g","g","r","e","g","a","t","e">>, <<"s","u","m">>, <<"a","v","g">>, <<"a","v","e","r","a","g","e">>,
     <<"t","o","t","a","l">>, <<"r","e","v","e","n","u","e">>, <<"s","a","l","e","s">>, <<"b","y"," ","c","a","t","e","g","o","r","y">>, <<"b","y"," ","p","r","o","d","u","c","t">>, <<"i","n","c","l","u","d","i","n","g">>,
     <<"w","h","e","r","e">>, <<"i","n","n","e","r">>, <<"o","u","t","e","r">>, <<"l","e","f","t">>, <<"r","i","g","h","t">>, <<"d","i","s","t","i","n","c","t">>, <<"l","i","m","i","t">>, <<"t","o","p">>,
     <<"c","a","l","c","u","l","a","t","e","d">>, <<"c","o","m","p","u","t","e","d">>, <<"a","n","a","l","y","s","i","s">>, <<"r","e","p","o","r","t">>, <<"b","r","e","a","k","d","o","w","n">>, <<"g","r","o","u","p","e","d">>,
     <<"b","y"," ">>, <<"g","r","o","u","p">>, <<"m","u","l","t","i","p","l","e">>, <<"b","e","t","w","e","e","n">>, <<"r","a","n","g","e">>, <<"f","i","l","t","e","r">>, <<"c","o","n","d","i","t","i","o","n">>,
     <<"c","o","u","n","t"," ","b","y">>, <<"c","o","u","n","t"," ","o","f">>, <<"c","o","u","n","t"," ","p","e","r">> >>

Sp1 == Many("s", 1)
Sp0 == Many("s", 0)
Word1 == Many("w", 1)
AnyStar == Many("any", 0)

\* r'^count\s+\w+\s*$', r'^how many\s+\w+\s*$', r'^(get|show)\s+count\s+of\s+\w+\s*$'
simple_count_patterns ==
  << Cat(<<Lit(<<"c","o","u","n","t">>), Sp1, Word1, Sp0, EndOfText>>),
     Cat(<<Lit(<<"h","o","w"," ","m","a","n","y">>), Sp1, Word1, Sp0, EndOfText>>),
     Cat(<<Alt(<<Lit(<<"g","e","t">>), Lit(<<"s","h","o","w">>)>>), Sp1, Lit(<<"c","o","u","n","t">>), Sp1, Lit(<<"o","f">>),
           Sp1, Word1, Sp0, EndOfText>>) >>

\* r'^(select|get|show|list)\s+\w+\s*$', r'^(list|show)\s+all\s+\w+\s*$'
simple_patterns ==
  << Cat(<<Alt(<<Lit(<<"s","e","l","e","c","t">>), Lit(<<"g","e","t">>), Lit(<<"s","h","o","w">>), Lit(<<"l","i","s","t">>)>>),
           Sp1, Word1, Sp0, EndOfText>>),
     Cat(<<Alt(<<Lit(<<"l","i","s","t">>), Lit(<<"s","h","o","w">>)>>), Sp1, Lit(<<"a","l","l">>), Sp1, Word1, Sp0,
           EndOfText>>) >>

\* _is_simple_query with the simple patterns tested before the complex
\* indicators
is_simple_query_simple_first(query) ==
  LET query_lower == Strip(Lower(query))
  IN  IF \E k \in DOMAIN simple_count_patterns :
           ReMatch(simple_count_patterns[k], query_lower) THEN TRUE
      ELSE IF StartsWithAny(query_lower, <<<<"l","i","s","t"," ">>, <<"s","h","o","w"," ">>, <<"g","e","t"," ">>, <<"f","i","n","d"," ">>>>)
             THEN TRUE
      ELSE IF \E k \in DOMAIN simple_patterns : ReMatch(simple_patterns[k], query_lower)
             THEN TRUE
      ELSE FALSE

\* IntelligentText2SQLAgent._is_simple_query
is_simple_query(query) ==
  LET query_lower == Strip(Lower(query))
  IN  IF ContainsAny(query_lower, complex_indicators) THEN FALSE
      ELSE IF \E k \in DOMAIN simple_count_patterns :
                 ReMatch(simple_count_patterns[k], query_lower) THEN TRUE
      ELSE IF StartsWithAny(query_lower, <<<<"l","i","s","t"," ">>, <<"s","h","o","w"," ">>, <<"g","e","t"," ">>, <<"f","i","n","d"," ">>>>)
             THEN TRUE
      ELSE \E k \in DOMAIN simple_patterns : ReMatch(simple_patterns[k], query_lower)

\* ------------------------------------------------------ airplane mode: router
\* AirplaneModeRouter.airplane_patterns, in dictionary order
airplane_patterns ==
  << [category |-> "simple_show",
      pattern |-> Cat(<<Lit(<<"s","h","o","w">>), Sp1, Opt(Cat(<<Lit(<<"a","l","l">>), Sp1>>)),
                        LitOpt(<<"t","a","b","l","e">>, "s")>>)],
     [category |-> "simple_show",
      pattern |-> Cat(<<Lit(<<"l","i","s","t">>), Sp1, Opt(Cat(<<Lit(<<"a","l","l">>), Sp1>>)),
                        LitOpt(<<"t","a","b","l","e">>, "s")>>)],
     [category |-> "simple_show", pattern |-> Cat(<<Lit(<<"s","h","o","w">>), Sp1, Lit(<<"s","c","h","e","m","a">>)>>)],
     [category |-> "simple_show",
      pattern |-> Cat(<<Lit(<<"d","e","s","c","r","i","b","e">>), Sp1, Lit(<<"d","a","t","a","b","a","s","e">>)>>)],
     [category |-> "basic_select",
      pattern |-> Cat(<<Lit(<<"s","h","o","w">>), Sp1, Opt(Cat(<<Lit(<<"a","l","l">>), Sp1>>)),
                        Alt(<<LitOpt(<<"c","u","s","t","o","m","e","r">>, "s"), LitOpt(<<"u","s","e","r">>, "s")>>)>>)],
     [category |-> "basic_select",
      pattern |-> Cat(<<Lit(<<"s","h","o","w">>), Sp1, Opt(Cat(<<Lit(<<"a","l","l">>), Sp1>>)),
                        Alt(<<LitOpt(<<"p","r","o","d","u","c","t">>, "s"), LitOpt(<<"i","t","e","m">>, "s")>>)>>)],
     [category |-> "basic_select",
      pattern |-> Cat(<<Lit(<<"s","h","o","w">>), Sp1, Opt(Cat(<<Lit(<<"a","l","l">>), Sp1>>)),
                        Alt(<<LitOpt(<<"o","r","d","e","r">>, "s"), LitOpt(<<"s","a","l","e">>, "s")>>)>>)],
     [category |-> "basic_select",
      pattern |-> Cat(<<Lit(<<"l","i","s","t">>), Sp1, Opt(Cat(<<Lit(<<"a","l","l">>), Sp1>>)),
                        Alt(<<LitOpt(<<"c","u","s","t","o","m","e","r">>, "s"), LitOpt(<<"p","r","o","d","u","c","t">>, "s"),
                              LitOpt(<<"o","r","d","e","r">>, "s")>>)>>)],
     [category |-> "simple_count",
      pattern |-> Cat(<<Lit(<<"h","o","w">>), Sp1, Lit(<<"m","a","n","y">>), Sp1,
                        Alt(<<LitOpt(<<"c","u","s","t","o","m","e","r">>, "s"), LitOpt(<<"p","r","o","d","u","c","t">>, "s"),
                              LitOpt(<<"o","r","d","e","r">>, "s")>>)>>)],
     [category |-> "simple_count",
      pattern |-> Cat(<<Lit(<<"c","o","u","n","t">>), Sp1,
                        Alt(<<LitOpt(<<"c","u","s","t","o","m","e","r">>, "s"), LitOpt(<<"p","r","o","d","u","c","t">>, "s"),
                              LitOpt(<<"o","r","d","e","r">>, "s")>>)>>)],
     [category |-> "simple_count",
      pattern |-> Cat(<<Lit(<<"t","o","t","a","l">>), Sp1,
                        Alt(<<LitOpt(<<"c","u","s","t","o","m","e","r">>, "s"), LitOpt(<<"p","r","o","d","u","c","t">>, "s"),
                              LitOpt(<<"o","r","d","e","r">>, "s")>>)>>)],
     [category |-> "basic_aggregates",
      pattern |-> Cat(<<Lit(<<"t","o","t","a","l">>), Sp1, LitOpt(<<"s","a","l","e">>, "s")>>)],
     [category |-> "basic_aggregates",
      pattern |-> Cat(<<Lit(<<"s","u","m">>), Sp1, Lit(<<"o","f">>), Sp1, LitOpt(<<"s","a","l","e">>, "s")>>)],
     [category |-> "basic_aggregates",
      pattern |-> Cat(<<Lit(<<"s","h","o","w">>), Sp1, LitOpt(<<"s","a","l","e">>, "s"), Sp1, Lit(<<"b","y">>), Sp1,
                        Alt(<<Lit(<<"r","e","g","i","o","n">>), Lit(<<"c","u","s","t","o","m","e","r">>), Lit(<<"p","r","o","d","u","c","t">>)>>)>>)],
     [category |-> "basic_aggregates",
      pattern |-> Cat(<<LitOpt(<<"s","a","l","e">>, "s"), Sp1, Lit(<<"b","y">>), Sp1,
                        Alt(<<Lit(<<"r","e","g","i","o","n">>), Lit(<<"c","u","s","t","o","m","e","r">>), Lit(<<"p","r","o","d","u","c","t">>)>>)>>)] >>

\* AirplaneModeRouter.llm_required_patterns
llm_required_patterns ==
  << Cat(<<Lit(<<"c","o","m","p","l","e","x">>), Sp1, Lit(<<"j","o","i","n">>)>>),
     Cat(<<Lit(<<"n","e","s","t","e","d">>), Sp1, Lit(<<"q","u","e","r","y">>)>>),
     Lit(<<"s","u","b","q","u","e","r","y">>),
     Cat(<<Lit(<<"c","a","s","e">>), Sp1, Lit(<<"w","h","e","n">>)>>),
     Cat(<<Lit(<<"w","i","n","d","o","w">>), Sp1, Lit(<<"f","u","n","c","t","i","o","n">>)>>),
     Lit(<<"r","e","c","u","r","s","i","v","e">>),
     Lit(<<"p","i","v","o","t">>),
     Cat(<<Lit(<<"c","a","l","c","u","l","a","t","e">>), AnyStar, Lit(<<"f","o","r","m","u","l","a">>)>>),
     Cat(<<Lit(<<"i","f">>), AnyStar, Lit(<<"t","h","e","n">>), AnyStar, Lit(<<"e","l","s","e">>)>>),
     Cat(<<Lit(<<"m","u","l","t","i","p","l","e">>), Sp1, Lit(<<"c","o","n","d","i","t","i","o","n","s">>), AnyStar, Lit(<<"a","n","d">>), AnyStar,
           Lit(<<"o","r">>)>>) >>

should_use_airplane_mode_simple_first(query) ==
  LET query_lower == Strip(Lower(query))
      hits == {k \in DOMAIN airplane_patterns :
                 ReSearch(airplane_patterns[k].pattern, query_lower)}
  IN  IF hits # {}
        THEN [use |-> TRUE, complexity |-> "none",
              category |-> airplane_patterns[CHOOSE k \in hits :
                                               \A j \in hits : k <= j].category]
      ELSE IF \E k \in DOMAIN llm_required_patterns :
                ReSearch(llm_required_patterns[k], query_lower)
        THEN [use |-> FALSE, complexity |-> "high", category |-> "none"]
      ELSE [use |-> FALSE, complexity |-> "unknown", category |-> "none"]

\* AirplaneModeRouter.should_use_airplane_mode: (use_airplane_mode, metadata)
should_use_airplane_mode(query) ==
  LET query_lower == Strip(Lower(query))
      hits == {k \in DOMAIN airplane_patterns :
                 ReSearch(airplane_patterns[k].pattern, query_lower)}
  IN  IF \E k \in DOMAIN llm_required_patterns :
           ReSearch(llm_required_patterns[k], query_lower)
        THEN [use |-> FALSE, complexity |-> "high", category |-> "none"]
      ELSE IF hits # {}
        THEN [use |-> TRUE, complexity |-> "none",
              category |-> airplane_patterns[CHOOSE k \in hits :
                                               \A j \in hits : k <= j].category]
      ELSE [use |-> FALSE, complexity |-> "unknown", category |-> "none"]

\* ------------------------------------------------------------- collaborators
\* A collaborator call, as recorded for one process_query_mode call.
Collaborator(op) ==
  CASE op = "metadata" -> "MetadataSource"
    [] op = "generator" -> "Generator"
    [] op = "executor" -> "Executor"
    [] op = "corrector" -> "Corrector"
    [] OTHER -> "Reasoning"
Call(stage, op) == [stage |-> stage, to |-> Collaborator(op)]

\* MetadataSource: SchemaInspector.get_all_tables, ordered by schema and name.
Table(schema, name, columns) == [schema |-> schema, name |-> name, columns |-> columns]
DbTables ==
  << Table(<<"S","a","l","e","s","L","T">>, <<"A","d","d","r","e","s","s">>, <<<<"A","d","d","r","e","s","s","I","D">>, <<"C","i","t","y">>>>),
     Table(<<"S","a","l","e","s","L","T">>, <<"C","u","s","t","o","m","e","r">>, <<<<"C","u","s","t","o","m","e","r","I","D">>, <<"F","i","r","s","t","N","a","m","e">>>>),
     Table(<<"S","a","l","e","s","L","T">>, <<"P","r","o","d","u","c","t">>, <<<<"P","r","o","d","u","c","t","I","D">>, <<"L","i","s","t","P","r","i","c","e">>>>),
     Table(<<"S","a","l","e","s","L","T">>, <<"S","a","l","e","s","O","r","d","e","r","H","e","a","d","e","r">>, <<<<"S","a","l","e","s","O","r","d","e","r","I","D">>, <<"T","o","t","a","l","D","u","e">>>>) >>

\* Generator: SQLGenerationTool.forward never raises; a failure is returned as
\* a text that starts with "-- Error".
LlmSqlTexts == {<<"S","E","L","E","C","T"," ","A">>}
GeneratorErrorTexts == {<<"-","-"," ","E","r","r","o","r"," ","g","e","n","e","r","a","t","i","n","g"," ","S","Q","L",":"," ","t","i","m","e","o","u","t">>}
sql_generator_forward == LlmSqlTexts \cup GeneratorErrorTexts

\* ErrorCorrectionTool.forward never raises either.
error_corrector_forward == {<<"S","E","L","E","C","T"," ","C">>, <<"E","r","r","o","r"," ","i","n"," ","c","o","r","r","e","c","t","i","o","n",":"," ","t","i","m","e","o","u","t">>}

\* Executor: DatabaseConnection.execute_query returns rows or raises.  A text
\* that is empty, an SQL comment or the corrector's error message is no
\* statement and is only ever rejected.
RowSets == {"rows"}
ExecRaise == [ok |-> FALSE, rows |-> "none"]
IsStatement(sql) ==
  sql # <<>> /\ ~StartsWith(sql, <<"-","-">>) /\ ~StartsWith(sql, <<"E","r","r","o","r"," ","i","n"," ","c","o","r","r","e","c","t","i","o","n">>)
execute_query(sql) ==
  IF IsStatement(sql)
    THEN {ExecRaise} \cup {[ok |-> TRUE, rows |-> r] : r \in RowSets}
    ELSE {ExecRaise}

\* ---------------------------------------------------------------- results
Result(success, sql, results, log, approach) ==
  [success |-> success, sql |-> sql, results |-> results, log |-> log,
   approach |-> approach, clarification_needed |-> FALSE, iterations |-> 0]

\* What a handler can do: the result it returns (or exc: an exception leaves
\* it), the collaborator calls it made, and the agent's schema cache after it.
Outcome(result, calls, schema) ==
  [result |-> result, calls |-> calls, schema |-> schema, exc |-> FALSE]

\* -------------------------------------------- LLMSchemaAnalystTool: metadata
NoSchema == [loaded |-> FALSE, tables |-> <<>>]
\* _get_database_schema: {tables returned, schema cache after, calls made}
get_database_schema(schema, stage) ==
  IF schema.loaded
    THEN {[tables |-> schema.tables, schema |-> schema, calls |-> {}]}
    ELSE {[tables |-> DbTables, schema |-> [loaded |-> TRUE, tables |-> DbTables],
           calls |-> {Call(stage, "metadata")}],
          [tables |-> <<>>, schema |-> schema,
           calls |-> {Call(stage, "metadata")}]}

\* analyze_schema: the schema context text and the calls made.  The analysis
\* cache and the keyword shortcut answer without the reasoning service; both
\* are covered by the outcome that makes no "schema_llm" call.
analyze_schema(schema, stage) ==
  {[context |-> "Relevant tables", schema |-> schema, calls |-> {}]} \cup
  UNION {
    IF m.tables = <<>>
      THEN {[context |-> "No database tables available", schema |-> m.schema,
             calls |-> m.calls]}
      ELSE {[context |-> "Relevant tables", schema |-> m.schema, calls |-> m.calls],
            [context |-> "Relevant tables", schema |-> m.schema,
             calls |-> m.calls \cup {Call(stage, "schema_llm")}],
            [context |-> "Schema analysis error", schema |-> m.schema,
             calls |-> m.calls \cup {Call(stage, "schema_llm")}]}
    : m \in get_database_schema(schema, stage) }

\* --------------------------------------------------- IntelligentOrchestrator
\* analyze_query_intent never raises: the parsed answer of the reasoning
\* service, or _fallback_analysis.  confidence is in tenths; numeric = FALSE
\* is an answer whose confidence is not a number.
Intent(complexity, confidence, numeric) ==
  [complexity |-> complexity, confidence |-> confidence, numeric |-> numeric]
fallback_analysis == Intent("medium", 5, TRUE)
IntentAnswers ==
  { Intent("simple", 9, TRUE), Intent("complex", 9, TRUE), Intent("medium", 4, TRUE),
    Intent("unknown", 9, TRUE), Intent("medium", 2, TRUE), Intent("medium", 0, FALSE) }
analyze_query_intent == IntentAnswers \cup {fallback_analysis}

Decision(approach, expected_iterations, is_int) ==
  [approach |-> approach, expected_iterations |-> expected_iterations, is_int |-> is_int]

\* _select_approach_by_complexity with the confidence tested without the
\* complexity
select_approach_by_confidence(complexity, confidence) ==
  IF confidence > 7 THEN Decision("direct_generation", 1, TRUE)
  ELSE IF complexity = "complex" THEN Decision("iterative_refinement", 3, TRUE)
  ELSE IF confidence < 5 THEN Decision("clarify_requirements", 0, TRUE)
  ELSE Decision("direct_generation", 2, TRUE)

\* _select_approach_by_complexity
select_approach_by_complexity(complexity, confidence) ==
  IF complexity = "simple" /\ confidence > 7 THEN Decision("direct_generation", 1, TRUE)
  ELSE IF complexity = "complex" THEN Decision("iterative_refinement", 3, TRUE)
  ELSE IF confidence < 5 THEN Decision("clarify_requirements", 0, TRUE)
  ELSE Decision("direct_generation", 2, TRUE)

\* _fallback_approach
fallback_approach == Decision("direct_generation", 2, TRUE)

\* _llm_driven_approach_decision never raises: the validated answer of the
\* reasoning delegate, or _fallback_approach.
DelegateAnswers ==
  { Decision("direct_generation", 1, TRUE), Decision("iterative_refinement", 2, TRUE),
    Decision("iterative_refinement", 0, FALSE), Decision("decompose_query", 1, TRUE),
    Decision("clarify_requirements", 0, TRUE), Decision("use_stored_procedure", 1, TRUE),
    Decision("something_else", 1, TRUE) }
\* what the call of the reasoning delegate can give: an answer that
\* validates, a reply that does not, or an exception of the client
Reply(ok, valid, decision) == [ok |-> ok, valid |-> valid, decision |-> decision]
NoAnswer == Decision("none", 0, TRUE)
DelegateReplies ==
  {Reply(TRUE, TRUE, d) : d \in DelegateAnswers}
    \cup {Reply(TRUE, FALSE, NoAnswer), Reply(FALSE, FALSE, NoAnswer)}

\* _llm_driven_approach_decision without its except clause
llm_driven_approach_decision_unguarded(reply) ==
  IF reply.ok /\ reply.valid THEN [decision |-> reply.decision, exc |-> FALSE]
  ELSE IF reply.ok THEN [decision |-> fallback_approach, exc |-> FALSE]
  ELSE [decision |-> fallback_approach, exc |-> TRUE]

\* _llm_driven_approach_decision for one reply of the delegate
llm_driven_approach_decision_on(reply) ==
  IF reply.ok /\ reply.valid THEN [decision |-> reply.decision, exc |-> FALSE]
  ELSE [decision |-> fallback_approach, exc |-> FALSE]

llm_driven_approach_decision ==
  {llm_driven_approach_decision_on(r).decision : r \in DelegateReplies}

\* decide_processing_approach for one reply of the delegate: {decision,
\* calls, exc}; a confidence that is not a number raises TypeError in the
\* comparisons.
decide_processing_approach_on(intent, reply, stage) ==
  IF ~intent.numeric
    THEN [decision |-> fallback_approach, calls |-> {}, exc |-> TRUE]
  ELSE IF intent.confidence < 3 \/ intent.complexity = "unknown"
    THEN LET d == llm_driven_approach_decision_on(reply)
         IN  [decision |-> d.decision, calls |-> {Call(stage, "delegate")},
              exc |-> d.exc]
  ELSE [decision |-> select_approach_by_complexity(intent.complexity, intent.confidence),
        calls |-> {}, exc |-> FALSE]

\* decide_processing_approach
decide_processing_approach(intent, stage) ==
  {decide_processing_approach_on(intent, r, stage) : r \in DelegateReplies}

\* ------------------------------------------------ agent: processing approaches
\* Each approach yields a set of {result, calls, exc}.
Step(result, calls) == [result |-> result, calls |-> calls, exc |-> FALSE]
NoResult == Result(FALSE, <<>>, "[]", "", "none")
Raised(calls) == [result |-> NoResult, calls |-> calls, exc |-> TRUE]

\* _handle_execution_error
handle_execution_error(sql, stage) ==
  UNION {
    { IF e.ok
        THEN Step(Result(TRUE, corrected_sql, e.rows, "Error corrected successfully.",
                         "error_correction"),
                  {Call(stage, "corrector"), Call(stage, "executor")})
        ELSE Step(Result(FALSE, corrected_sql, "[]",
                         "Both original and corrected queries failed.",
                         "error_correction_failed"),
                  {Call(stage, "corrector"), Call(stage, "executor")})
      : e \in execute_query(corrected_sql) }
    : corrected_sql \in error_corrector_forward }

Prepend(calls, steps) == {[s EXCEPT !.calls = calls \cup s.calls] : s \in steps}

\* _direct_generation_approach
direct_generation_approach(stage) ==
  UNION { UNION {
    LET calls == {Call(stage, "generator"), Call(stage, "executor")}
    IN  IF e.ok
          THEN {Step(Result(TRUE, sql_query, e.rows, "Direct generation successful.",
                            "direct_generation"), calls)}
          ELSE Prepend(calls, handle_execution_error(sql_query, stage))
    : e \in execute_query(sql_query) }
    : sql_query \in sql_generator_forward }

\* _iterative_refinement_approach, from iteration `iteration` (1-based) on,
\* with the attempts recorded so far.
RECURSIVE iterative_refinement_from(_, _, _, _)
iterative_refinement_from(iteration, max_iterations, sql_attempts, stage) ==
  IF iteration > max_iterations
    THEN {Step([Result(FALSE,
                       IF sql_attempts # <<>> THEN sql_attempts[Len(sql_attempts)] ELSE <<>>,
                       "[]", "Iterative refinement failed.", "iterative_refinement")
                  EXCEPT !.iterations = max_iterations],
               {Call(stage, "diagnosis")})}
    ELSE UNION { UNION {
      LET calls == {Call(stage, "generator"), Call(stage, "executor")}
      IN  IF e.ok
            THEN {Step([Result(TRUE, sql_query, e.rows, "Iterative refinement successful.",
                               "iterative_refinement") EXCEPT !.iterations = iteration],
                       calls)}
            ELSE Prepend(calls,
                   iterative_refinement_from(iteration + 1, max_iterations,
                                             Append(sql_attempts, sql_query), stage))
      : e \in execute_query(sql_query) }
      : sql_query \in sql_generator_forward }

\* range(max_iterations) raises TypeError when max_iterations is no integer
iterative_refinement_approach(decision, stage) ==
  IF ~decision.is_int THEN {Raised({})}
  ELSE iterative_refinement_from(1, decision.expected_iterations, <<>>, stage)

\* _decompose_query_approach
decompose_query_approach(stage) == iterative_refinement_from(1, 3, <<>>, stage)

\* _stored_procedure_approach: the agent has no stored_proc_executor, the
\* AttributeError is caught
stored_procedure_approach ==
  {Step(Result(FALSE, <<>>, "[]", "Stored procedure approach failed", "stored_procedure"),
        {})}

\* _execute_intelligent_approach
execute_intelligent_approach(decision, stage) ==
  CASE decision.approach = "direct_generation" -> direct_generation_approach(stage)
    [] decision.approach = "iterative_refinement" ->
         iterative_refinement_approach(decision, stage)
    [] decision.approach = "decompose_query" -> decompose_query_approach(stage)
    [] decision.approach = "clarify_requirements" ->
         {Step([Result(FALSE, <<>>, "[]",
                       "Query is ambiguous and requires clarification.", "none")
                  EXCEPT !.clarification_needed = TRUE], {})}
    [] decision.approach = "use_stored_procedure" -> stored_procedure_approach
    [] OTHER -> direct_generation_approach(stage)

\* _process_with_full_orchestration: everything runs inside one try; any
\* exception becomes the "error" result.
OrchestrationError ==
  Result(FALSE, <<>>, "[]", "Intelligent processing failed", "error")
process_with_full_orchestration(query, schema) ==
  UNION { UNION { UNION { UNION {
    LET calls == m.calls \cup {Call("full", "intent")} \cup a.calls \cup d.calls
    IN  IF d.exc THEN {Outcome(OrchestrationError, calls, a.schema)}
        ELSE { IF s.exc THEN Outcome(OrchestrationError, calls \cup s.calls, a.schema)
               ELSE Outcome(s.result, calls \cup s.calls, a.schema)
               : s \in execute_intelligent_approach(d.decision, "full") }
    : d \in decide_processing_approach(intent, "full") }
    : a \in analyze_schema(m.schema, "full") }
    : intent \in analyze_query_intent }
    : m \in get_database_schema(schema, "full") }

\* _fallback_to_full_processing
fallback_to_full_processing(query, schema) == process_with_full_orchestration(query, schema)

\* ----------------------------------------------------------- agent: fast path
\* _handle_simple_query: table_keywords
table_keywords ==
  << <<<<"c","u","s","t","o","m","e","r">>, <<"c","l","i","e","n","t">>>>, <<<<"p","r","o","d","u","c","t">>, <<"i","t","e","m">>>>, <<<<"o","r","d","e","r">>, <<"s","a","l","e">>>>,
     <<<<"e","m","p","l","o","y","e","e">>, <<"s","t","a","f","f">>, <<"w","o","r","k","e","r">>>>, <<<<"i","n","v","o","i","c","e">>, <<"b","i","l","l">>>>,
     <<<<"a","d","d","r","e","s","s">>, <<"l","o","c","a","t","i","o","n">>>> >>

\* the table the keyword loop settles on (0: none)
likely_table_index(query, tables) ==
  LET query_lower == Lower(query)
      fits == {t \in DOMAIN tables :
                 \E g \in DOMAIN table_keywords :
                   /\ ContainsAny(query_lower, table_keywords[g])
                   /\ ContainsAny(Lower(tables[t].name), table_keywords[g])}
  IN  IF fits # {} THEN CHOOSE t \in fits : \A u \in fits : t <= u
      ELSE IF tables # <<>> THEN 1
      ELSE 0

FullTableName(table) ==
  IF table.schema # <<>> THEN table.schema \o <<".">> \o table.name ELSE table.name

\* _generate_simple_sql_template without the count pattern
generate_simple_sql_template_without_count(query, table) ==
  LET query_lower == Strip(Lower(query))
      table_name == FullTableName(table)
  IN  IF StartsWithAny(query_lower, <<<<"s","h","o","w"," ">>, <<"l","i","s","t"," ">>, <<"g","e","t"," ">>, <<"d","i","s","p","l","a","y"," ">>>>)
        THEN <<"S","E","L","E","C","T"," ","*"," ","F","R","O","M"," ">> \o table_name
      ELSE <<>>

\* _generate_simple_sql_template; <<>> stands for None
generate_simple_sql_template(query, table) ==
  LET query_lower == Strip(Lower(query))
      table_name == FullTableName(table)
      amount_cols == {c \in DOMAIN table.columns :
                        ContainsAny(Lower(table.columns[c]),
                                    <<<<"t","o","t","a","l">>, <<"a","m","o","u","n","t">>, <<"p","r","i","c","e">>, <<"c","o","s","t">>, <<"v","a","l","u","e">>>>)}
  IN  IF StartsWithAny(query_lower, <<<<"c","o","u","n","t"," ">>, <<"h","o","w"," ","m","a","n","y"," ">>>>)
        THEN <<"S","E","L","E","C","T"," ","C","O","U","N","T","(","*",")"," ","A","S"," ","c","o","u","n","t"," ","F","R","O","M"," ">> \o table_name
      ELSE IF StartsWithAny(query_lower, <<<<"s","h","o","w"," ">>, <<"l","i","s","t"," ">>, <<"g","e","t"," ">>, <<"d","i","s","p","l","a","y"," ">>>>)
        THEN <<"S","E","L","E","C","T"," ","*"," ","F","R","O","M"," ">> \o table_name
      ELSE IF StartsWithAny(query_lower, <<<<"t","o","t","a","l"," ">>, <<"s","u","m"," ">>>>) /\ amount_cols # {}
        THEN <<"S","E","L","E","C","T"," ","S","U","M","(">> \o table.columns[CHOOSE c \in amount_cols :
                                               \A d \in amount_cols : c <= d]
               \o <<")"," ","A","S"," ","t","o","t","a","l"," ","F","R","O","M"," ">> \o table_name
      ELSE <<>>

\* _handle_simple_query
handle_simple_query(query, schema) ==
  UNION {
    LET likely == likely_table_index(query, m.tables)
        fall_back(calls) ==
          {[o EXCEPT !.calls = calls \cup o.calls]
             : o \in fallback_to_full_processing(query, m.schema)}
    IN  IF likely = 0 THEN fall_back(m.calls)
        ELSE
          LET template == generate_simple_sql_template(query, m.tables[likely])
              generated ==
                IF template = <<>>
                  THEN {[sql |-> g, calls |-> m.calls \cup {Call("fast", "generator")}]
                          : g \in sql_generator_forward}
                  ELSE {[sql |-> template, calls |-> m.calls]}
          IN  UNION {
                IF g.sql # <<>> /\ ~StartsWith(g.sql, <<"-","-"," ","E","r","r","o","r">>)
                  THEN UNION {
                         IF e.ok
                           THEN {Outcome(Result(TRUE, g.sql, e.rows, "Fast path successful.",
                                                "fast_path"),
                                         g.calls \cup {Call("fast", "executor")},
                                         m.schema)}
                           ELSE fall_back(g.calls \cup {Call("fast", "executor")})
                         : e \in execute_query(g.sql) }
                  ELSE fall_back(g.calls)
                : g \in generated }
    : m \in get_database_schema(schema, "fast") }

\* ------------------------------------------------------ agent: airplane mode
\* the hardcoded templates of _handle_airplane_mode
airplane_sql(query) ==
  LET query_lower == Strip(Lower(query))
      has(word) == Contains(query_lower, word)
  IN  IF has(<<"c","o","u","n","t">>) /\ has(<<"c","u","s","t","o","m","e","r">>)
        THEN <<"S","E","L","E","C","T"," ","C","O","U","N","T","(","*",")"," ","A","S"," ","c","u","s","t","o","m","e","r","_","c","o","u","n","t"," ","F","R","O","M"," ","S","a","l","e","s","L","T",".","C","u","s","t","o","m","e","r">>
      ELSE IF has(<<"c","o","u","n","t">>) /\ has(<<"p","r","o","d","u","c","t">>)
        THEN <<"S","E","L","E","C","T"," ","C","O","U","N","T","(","*",")"," ","A","S"," ","p","r","o","d","u","c","t","_","c","o","u","n","t"," ","F","R","O","M"," ","S","a","l","e","s","L","T",".","P","r","o","d","u","c","t">>
      ELSE IF has(<<"c","o","u","n","t">>) /\ (has(<<"o","r","d","e","r">>) \/ has(<<"s","a","l","e">>))
        THEN <<"S","E","L","E","C","T"," ","C","O","U","N","T","(","*",")"," ","A","S"," ","o","r","d","e","r","_","c","o","u","n","t"," ","F","R","O","M"," ","S","a","l","e","s","L","T",".","S","a","l","e","s","O","r","d","e","r","H","e","a","d","e","r">>
      ELSE IF has(<<"s","h","o","w">>) /\ has(<<"c","u","s","t","o","m","e","r">>)
        THEN <<"S","E","L","E","C","T"," ","T","O","P"," ","1","0"," ","C","u","s","t","o","m","e","r","I","D",","," ","F","i","r","s","t","N","a","m","e",","," ","L","a","s","t","N","a","m","e"," ","F","R","O","M"," ","S","a","l","e","s","L","T",".","C","u","s","t","o","m","e","r">>
      ELSE IF has(<<"s","h","o","w">>) /\ has(<<"p","r","o","d","u","c","t">>)
        THEN <<"S","E","L","E","C","T"," ","T","O","P"," ","1","0"," ","P","r","o","d","u","c","t","I","D",","," ","N","a","m","e",","," ","L","i","s","t","P","r","i","c","e"," ","F","R","O","M"," ","S","a","l","e","s","L","T",".","P","r","o","d","u","c","t">>
      ELSE IF has(<<"s","h","o","w">>) /\ (has(<<"o","r","d","e","r">>) \/ has(<<"s","a","l","e">>))
        THEN <<"S","E","L","E","C","T"," ","T","O","P"," ","1","0"," ","S","a","l","e","s","O","r","d","e","r","I","D",","," ","O","r","d","e","r","D","a","t","e",","," ","T","o","t","a","l","D","u","e"," ","F","R","O","M"," ","S","a","l","e","s","L","T",".","S","a","l","e","s","O","r","d","e","r","H","e","a","d","e","r"," ","O","R","D","E","R"," ","B","Y"," ","O","r","d","e","r","D","a","t","e"," ","D","E","S","C">>
      ELSE <<"S","E","L","E","C","T"," ","C","O","U","N","T","(","*",")"," ","A","S"," ","t","o","t","a","l","_","c","o","u","n","t"," ","F","R","O","M"," ","S","a","l","e","s","L","T",".","C","u","s","t","o","m","e","r">>

\* _handle_airplane_mode without its except clause: the execution error
\* leaves the handler
handle_airplane_mode_unguarded(query, schema) ==
  LET sql == airplane_sql(query)
  IN  { IF e.ok
          THEN Outcome(Result(TRUE, sql, e.rows, "AIRPLANE MODE: Instant response.",
                              "airplane_mode"),
                       {Call("airplane", "executor")}, schema)
          ELSE [result |-> NoResult, calls |-> {Call("airplane", "executor")},
                schema |-> schema, exc |-> TRUE]
        : e \in execute_query(sql) }

\* _handle_airplane_mode with an except clause that drops the query text
handle_airplane_mode_without_sql(query, schema) ==
  LET sql == airplane_sql(query)
  IN  { IF e.ok
          THEN Outcome(Result(TRUE, sql, e.rows, "AIRPLANE MODE: Instant response.",
                              "airplane_mode"),
                       {Call("airplane", "executor")}, schema)
          ELSE Outcome(Result(FALSE, <<>>, "[]", "AIRPLANE MODE: Database error",
                              "airplane_mode_failed"),
                       {Call("airplane", "executor")}, schema)
        : e \in execute_query(sql) }

\* _handle_airplane_mode: the execution error is caught
handle_airplane_mode(query, schema) ==
  LET sql == airplane_sql(query)
  IN  { IF e.ok
          THEN Outcome(Result(TRUE, sql, e.rows, "AIRPLANE MODE: Instant response.",
                              "airplane_mode"),
                       {Call("airplane", "executor")}, schema)
          ELSE Outcome(Result(FALSE, sql, "[]", "AIRPLANE MODE: Database error",
                              "airplane_mode_failed"),
                       {Call("airplane", "executor")}, schema)
        : e \in execute_query(sql) }

\* _handle_generic_fallback
handle_generic_fallback(query, schema) ==
  {Outcome(Result(FALSE, <<"-","-"," ","N","o"," ","S","Q","L"," ","g","e","n","e","r","a","t","e","d">>, "[]",
                  "Could not process this query. Please try rephrasing.",
                  "generic_fallback"), {}, schema)}

\* ------------------------------------------------------------ QueryResultCache
\* _get_cache_key of the text as it was typed
get_cache_key_exact(query) == <<"sha256">> \o query

\* _get_cache_key: the first 16 hex digits of SHA-256 of the normalised text;
\* the digest is kept as a tag on the text it was computed from.
get_cache_key(query) == <<"sha256">> \o Strip(Lower(query))

\* _is_cache_valid with an inclusive comparison
is_cache_valid_inclusive(timestamp, time, cache_ttl) == time - timestamp <= cache_ttl

\* _is_cache_valid
is_cache_valid(timestamp, time, cache_ttl) == time - timestamp < cache_ttl

Remove(cache, key) == [k \in DOMAIN cache \ {key} |-> cache[k]]
Put(cache, key, entry) ==
  [k \in DOMAIN cache \cup {key} |-> IF k = key THEN entry ELSE cache[k]]

\* get_cached_result: {hit, value, cache after}
get_cached_result(cache, query, time, cache_ttl) ==
  LET cache_key == get_cache_key(query)
  IN  IF cache_key \in DOMAIN cache
        THEN IF is_cache_valid(cache[cache_key].timestamp, time, cache_ttl)
               THEN [hit |-> TRUE, value |-> cache[cache_key].result, cache |-> cache]
               ELSE [hit |-> FALSE, value |-> NoResult, cache |-> Remove(cache, cache_key)]
        ELSE [hit |-> FALSE, value |-> NoResult, cache |-> cache]

\* cache_result
cache_result(cache, query, result, time) ==
  Put(cache, get_cache_key(query), [result |-> result, timestamp |-> time])

\* clear_expired: {count, cache after}
clear_expired(cache, time, cache_ttl) ==
  LET expired == {k \in DOMAIN cache : time - cache[k].timestamp >= cache_ttl}
  IN  [count |-> Cardinality(expired), cache |-> [k \in DOMAIN cache \ expired |-> cache[k]]]

\* IntelligentText2SQLAgent._store_in_cache
store_in_cache(cache, query, result, time) ==
  IF result.success THEN cache_result(cache, query, result, time) ELSE cache

\* ------------------------------------------------------------------- requests
Q_count_customers == <<"c","o","u","n","t"," ","c","u","s","t","o","m","e","r","s">>
Q_Count_Customers == <<" "," ","C","o","u","n","t"," ","C","u","s","t","o","m","e","r","s"," ">>
Q_find_customers == <<"f","i","n","d"," ","c","u","s","t","o","m","e","r","s">>
Q_total_sales == <<"t","o","t","a","l"," ","s","a","l","e","s">>
Q_hello == <<"h","e","l","l","o">>
Q_nested_query == <<"n","e","s","t","e","d"," ","q","u","e","r","y">>
Requests ==
  {Q_count_customers, Q_Count_Customers, Q_find_customers, Q_total_sales, Q_hello,
   Q_nested_query}

\* STEP 4 of process_query_mode: the router decides between airplane mode and the generic answer;
\* neither result is stored
airplane_or_generic(q, schema) ==
  IF should_use_airplane_mode(q).use
    THEN handle_airplane_mode(q, schema)
    ELSE handle_generic_fallback(q, schema)

\* the handlers' outcomes, tabulated over the requests and schema cache states
SchemaStates == {NoSchema, [loaded |-> TRUE, tables |-> DbTables]}
fast_path_table ==
  UNION { UNION { {<<q, s, o>> : o \in handle_simple_query(q, s)}
                  : s \in SchemaStates } : q \in Requests }
full_orchestration_table ==
  UNION { UNION { {<<q, s, o>> : o \in process_with_full_orchestration(q, s)}
                  : s \in SchemaStates } : q \in Requests }
fallback_table ==
  UNION { UNION { {<<q, s, o>> : o \in airplane_or_generic(q, s)}
                  : s \in SchemaStates } : q \in Requests }
\* the routing decisions and cache keys of the requests, tabulated
simple_table == {<<q, is_simple_query(q)>> : q \in Requests}
router_table == {<<q, should_use_airplane_mode(q)>> : q \in Requests}
key_table == {<<q, get_cache_key(q)>> : q \in Requests}
At(table, q) == (CHOOSE t \in table : t[1] = q)[2]
Lookup(table, q, s) == {t[3] : t \in {u \in table : u[1] = q /\ u[2] = s}}

\* QueryResultCache(cache_ttl=3600), in seconds.  The clock advances in steps
\* of half a TTL, up to MaxTicks steps.
CacheTTL == 3600
ResultTick == CacheTTL \div 2
MaxTicks == 2

EmptyCache == [k \in {} |-> NoResult]
NoCall == [query |-> <<>>, result |-> NoResult, started_at |-> 0, any |-> FALSE]

\* the variables of the other components, while they are not exercised
NoCacheOp ==
  [op |-> "none", query |-> <<>>, hit |-> FALSE, value |-> NoResult, count |-> 0,
   before |-> EmptyCache, at |-> 0]
NoEntOp ==
  [op |-> "none", key |-> "none", hit |-> FALSE, value |-> "None", before |-> <<>>,
   at |-> 0]
NoGenIn == [query |-> <<>>, tables |-> <<>>]
NoGenOut == [op |-> "none", sql |-> <<>>, success |-> FALSE]
CacheIdle == cache_op = NoCacheOp
EntIdle == ent_cache = <<>> /\ ent_op = NoEntOp
GenIdle == gen_in = NoGenIn /\ gen_out = NoGenOut

\* CircuitBreaker.__init__; last_failure_time = -1 stands for None
NewBreaker == [state |-> "CLOSED", failure_count |-> 0, last_failure_time |-> -1]
\* the threads that call CircuitBreaker.call
MaxCallers == 2
Callers == 1..MaxCallers
NoThread == [pc |-> "idle", probe |-> FALSE, during_probe |-> FALSE, outcome |-> "none"]
NoBrkOp == [kind |-> "none", caller |-> 0, before |-> NewBreaker, at |-> 0, streak |-> 0]
BrkIdle ==
  /\ breaker = NewBreaker
  /\ lock = 0
  /\ threads = [c \in Callers |-> NoThread]
  /\ brk_op = NoBrkOp
NoGetter == [pc |-> "idle", data |-> "None", expired |-> "None"]
NoProvOp ==
  [kind |-> "none", returned |-> "None", raised |-> FALSE, expired |-> "None",
   submitted |-> FALSE, before |-> <<>>, breaker_before |-> NewBreaker,
   tasks_before |-> <<>>, at |-> 0]
ProvIdle == getter = NoGetter /\ refresh = <<>> /\ prov_op = NoProvOp
\* the request workers that share the result cache
MaxCacheWorkers == 2
CacheWorkers == 1..MaxCacheWorkers
NoWorker ==
  [pc |-> "idle", query |-> <<>>, timestamp |-> 0, size |-> 0, current_time |-> 0,
   expired |-> {}, raised |-> "none"]
ConcIdle == workers = [w \in CacheWorkers |-> NoWorker]
NoFunIn == [name |-> "none"]
NoFunOut == [done |-> FALSE]
FunIdle == fun_in = NoFunIn /\ fun_out = NoFunOut
NoRetry == [pc |-> "idle"]
RetryIdle == retry = NoRetry
NoHeap == <<>>
NoRefOp == [kind |-> "none"]
RefIdle == heap = NoHeap /\ ref_cache = EmptyCache /\ held = {} /\ ref_op = NoRefOp
PipelineIdle ==
  /\ query_cache = EmptyCache
  /\ schema_cache = NoSchema
  /\ pc = "idle"
  /\ cur_query = <<>>
  /\ cur_result = NoResult
  /\ cur_calls = {}
  /\ trace = <<>>
  /\ lookup_at = 0
  /\ last_call = NoCall

\* ------------------------------------------------- process_query_mode, stepwise
\* IntelligentText2SQLAgent.__init__: an empty result cache; the schema
\* preload either succeeded or was logged and skipped.  A behaviour follows
\* the requests of one normalised text, the first of which is `cur_query`.
Init ==
  /\ now = 0
  /\ query_cache = EmptyCache
  /\ schema_cache \in SchemaStates
  /\ pc = "idle"
  /\ cur_query \in Requests
  /\ cur_result = NoResult
  /\ cur_calls = {}
  /\ trace = <<>>
  /\ lookup_at = 0
  /\ last_call = NoCall
  /\ CacheIdle /\ EntIdle /\ GenIdle /\ BrkIdle /\ ProvIdle
  /\ ConcIdle /\ FunIdle /\ RetryIdle /\ RefIdle

Ran(stage, success) == [stage |-> stage, success |-> success]

\* a caller invokes process_query_mode(q)
Begin(q) ==
  /\ pc = "idle"
  /\ At(key_table, q) = At(key_table, cur_query)
  /\ pc' = "cache"
  /\ cur_query' = q
  /\ UNCHANGED <<now, query_cache, schema_cache, cur_result, cur_calls, trace, lookup_at,
                 last_call, cache_op, ent_vars, gen_vars, brk_vars, prov_vars,
                 conc_vars, fun_vars, retry_vars, ref_vars>>

\* STEP 1 of process_query_mode: _check_query_cache
CheckCache ==
  /\ pc = "cache"
  /\ LET got == get_cached_result(query_cache, cur_query, now, CacheTTL)
     IN  /\ query_cache' = got.cache
         /\ cur_result' = got.value
         /\ trace' = <<Ran("cache", got.hit)>>
         /\ pc' = IF got.hit THEN "done"
                  ELSE IF At(simple_table, cur_query) THEN "fast" ELSE "full"
  /\ lookup_at' = now
  /\ UNCHANGED <<now, schema_cache, cur_query, cur_calls, last_call, cache_op, ent_vars,
                 gen_vars, brk_vars, prov_vars, conc_vars, fun_vars, retry_vars, ref_vars>>

\* STEP 2 or 3 without the return after a success: the next stage runs anyway
AfterStageWithoutReturn(stage, o, next) ==
  /\ cur_calls' = cur_calls \cup o.calls
  /\ schema_cache' = o.schema
  /\ cur_result' = o.result
  /\ trace' = Append(trace, Ran(stage, ~o.exc /\ o.result.success))
  /\ pc' = IF o.exc THEN "raised" ELSE next
  /\ query_cache' = IF o.exc THEN query_cache
                    ELSE store_in_cache(query_cache, cur_query, o.result, now)
  /\ UNCHANGED <<now, cur_query, lookup_at, last_call, cache_op, ent_vars, gen_vars, brk_vars, prov_vars,
                 conc_vars, fun_vars, retry_vars, ref_vars>>

\* STEP 2 or 3 storing the result before its success is tested
AfterStageStoringEveryResult(stage, o, next) ==
  /\ cur_calls' = cur_calls \cup o.calls
  /\ schema_cache' = o.schema
  /\ cur_result' = o.result
  /\ trace' = Append(trace, Ran(stage, ~o.exc /\ o.result.success))
  /\ pc' = IF o.exc THEN "raised" ELSE IF o.result.success THEN "done" ELSE next
  /\ query_cache' = IF o.exc THEN query_cache
                    ELSE cache_result(query_cache, cur_query, o.result, now)
  /\ UNCHANGED <<now, cur_query, lookup_at, last_call, cache_op, ent_vars, gen_vars, brk_vars, prov_vars,
                 conc_vars, fun_vars, retry_vars, ref_vars>>

\* what process_query_mode does with the outcome of STEP 2 or 3: a successful
\* result is stored and returned, a failed one falls through to `next`
AfterStage(stage, o, next) ==
  /\ cur_calls' = cur_calls \cup o.calls
  /\ schema_cache' = o.schema
  /\ cur_result' = o.result
  /\ trace' = Append(trace, Ran(stage, ~o.exc /\ o.result.success))
  /\ IF o.exc THEN pc' = "raised" /\ UNCHANGED query_cache
     ELSE IF o.result.success
       THEN /\ pc' = "done"
            /\ query_cache' = store_in_cache(query_cache, cur_query, o.result, now)
     ELSE pc' = next /\ UNCHANGED query_cache
  /\ UNCHANGED <<now, cur_query, lookup_at, last_call, cache_op, ent_vars, gen_vars, brk_vars, prov_vars,
                 conc_vars, fun_vars, retry_vars, ref_vars>>

\* STEP 2: the fast path
FastPath ==
  /\ pc = "fast"
  /\ \E o \in Lookup(fast_path_table, cur_query, schema_cache) :
       AfterStage("fast", o, "full")

\* STEP 3: full orchestration
FullOrchestration ==
  /\ pc = "full"
  /\ \E o \in Lookup(full_orchestration_table, cur_query, schema_cache) :
       AfterStage("full", o, "airplane")

\* STEP 4: airplane mode or the generic answer; the result is returned as is
Fallback ==
  /\ pc = "airplane"
  /\ \E o \in Lookup(fallback_table, cur_query, schema_cache) :
       /\ cur_calls' = cur_calls \cup o.calls
       /\ schema_cache' = o.schema
       /\ cur_result' = o.result
       /\ trace' = Append(trace,
                          Ran(IF At(router_table, cur_query).use
                                THEN "airplane" ELSE "generic",
                              ~o.exc /\ o.result.success))
       /\ pc' = IF o.exc THEN "raised" ELSE "done"
  /\ UNCHANGED <<now, query_cache, cur_query, lookup_at, last_call, cache_op, ent_vars,
                 gen_vars, brk_vars, prov_vars, conc_vars, fun_vars, retry_vars, ref_vars>>

\* process_query_mode returns `cur_result` to its caller
Return ==
  /\ pc = "done"
  /\ pc' = "idle"
  /\ last_call' = [query |-> cur_query, result |-> cur_result, started_at |-> lookup_at,
                   any |-> TRUE]
  /\ cur_result' = NoResult
  /\ cur_calls' = {}
  /\ trace' = <<>>
  /\ UNCHANGED <<now, query_cache, schema_cache, cur_query, lookup_at, cache_op, ent_vars,
                 gen_vars, brk_vars, prov_vars, conc_vars, fun_vars, retry_vars, ref_vars>>

\* time passes
Tick ==
  /\ now < MaxTicks * ResultTick
  /\ now' = now + ResultTick
  /\ UNCHANGED <<pipeline_vars, cache_op, ent_vars, gen_vars, brk_vars, prov_vars,
                 conc_vars, fun_vars, retry_vars, ref_vars>>

Next ==
  \/ \E q \in Requests : Begin(q)
  \/ CheckCache
  \/ FastPath
  \/ FullOrchestration
  \/ Fallback
  \/ Return
  \/ Tick

Spec == Init /\ [][Next]_vars

\* ------------------------------------------------ QueryResultCache on its own
\* The cache under arbitrary interleavings of get_cached_result, cache_result,
\* clear_expired and the clock.
CacheQueries == {Q_count_customers, Q_Count_Customers, Q_hello}
CachedResults ==
  { Result(TRUE, <<"S","E","L","E","C","T"," ","A">>, "rows", "Direct generation successful.", "direct_generation"),
    Result(TRUE, <<"S","E","L","E","C","T"," ","C">>, "rows", "Error corrected successfully.", "error_correction") }

CacheInit ==
  /\ now = 0
  /\ PipelineIdle /\ CacheIdle /\ EntIdle /\ GenIdle /\ BrkIdle /\ ProvIdle
  /\ ConcIdle /\ FunIdle /\ RetryIdle /\ RefIdle

\* get_cached_result(q)
GetCachedResult(q) ==
  /\ LET got == get_cached_result(query_cache, q, now, CacheTTL)
     IN  /\ query_cache' = got.cache
         /\ cache_op' = [op |-> "get", query |-> q, hit |-> got.hit, value |-> got.value,
                         count |-> 0, before |-> query_cache, at |-> now]
  /\ UNCHANGED <<now, schema_cache, pc, cur_query, cur_result, cur_calls, trace, lookup_at,
                 last_call, ent_vars, gen_vars, brk_vars, prov_vars,
                 conc_vars, fun_vars, retry_vars, ref_vars>>

\* cache_result(q, r)
CacheResult(q, r) ==
  /\ query_cache' = cache_result(query_cache, q, r, now)
  /\ cache_op' = [op |-> "put", query |-> q, hit |-> FALSE, value |-> r, count |-> 0,
                  before |-> query_cache, at |-> now]
  /\ UNCHANGED <<now, schema_cache, pc, cur_query, cur_result, cur_calls, trace, lookup_at,
                 last_call, ent_vars, gen_vars, brk_vars, prov_vars,
                 conc_vars, fun_vars, retry_vars, ref_vars>>

\* clear_expired()
ClearExpired ==
  /\ LET cleared == clear_expired(query_cache, now, CacheTTL)
     IN  /\ query_cache' = cleared.cache
         /\ cache_op' = [op |-> "clear", query |-> <<>>, hit |-> FALSE, value |-> NoResult,
                         count |-> cleared.count, before |-> query_cache, at |-> now]
  /\ UNCHANGED <<now, schema_cache, pc, cur_query, cur_result, cur_calls, trace, lookup_at,
                 last_call, ent_vars, gen_vars, brk_vars, prov_vars,
                 conc_vars, fun_vars, retry_vars, ref_vars>>

CacheNext ==
  \/ \E q \in CacheQueries : GetCachedResult(q)
  \/ \E q \in CacheQueries, r \in CachedResults : CacheResult(q, r)
  \/ ClearExpired
  \/ Tick

CacheSpec == CacheInit /\ [][CacheNext]_vars

\* ------------------------------------------------------- EnterpriseSchemaCache
\* CacheEntry; _cache is a dict, kept here as the sequence of its items in
\* insertion order, which is the order min() scans.
CacheEntry(key, data, timestamp, ttl, access_count, last_access) ==
  [key |-> key, data |-> data, timestamp |-> timestamp, ttl |-> ttl,
   access_count |-> access_count, last_access |-> last_access]

\* EnterpriseSchemaCache(default_ttl=1800); max_size is 1000 in the source
\* and MaxSize here
SchemaCacheTTL == 1800
MaxSize == 2
\* access_count is followed up to MaxAccess
MaxAccess == 2

IndexOf(cache, key) ==
  IF \E i \in DOMAIN cache : cache[i].key = key
    THEN CHOOSE i \in DOMAIN cache : cache[i].key = key
    ELSE 0
Without(cache, i) == SubSeq(cache, 1, i - 1) \o SubSeq(cache, i + 1, Len(cache))

\* EnterpriseSchemaCache.get: {hit, value returned, cache after}
schema_cache_get(cache, key, current_time) ==
  LET i == IndexOf(cache, key)
  IN  IF i = 0 THEN [hit |-> FALSE, value |-> "None", cache |-> cache]
      ELSE IF current_time - cache[i].timestamp > cache[i].ttl
        THEN [hit |-> FALSE, value |-> "None", cache |-> Without(cache, i)]
      ELSE [hit |-> TRUE, value |-> cache[i].data,
            cache |-> [cache EXCEPT ![i].access_count = @ + 1,
                                    ![i].last_access = current_time]]

\* eviction by age: the first entry with the least timestamp goes
evict_oldest(cache) ==
  IF cache = <<>> THEN cache
  ELSE LET old == CHOOSE i \in DOMAIN cache :
                    /\ \A j \in DOMAIN cache : cache[i].timestamp <= cache[j].timestamp
                    /\ \A j \in 1..(i - 1) : cache[j].timestamp > cache[i].timestamp
       IN  Without(cache, old)

\* EnterpriseSchemaCache._evict_lru: min() returns the first key with the
\* least last_access
evict_lru(cache) ==
  IF cache = <<>> THEN cache
  ELSE LET lru == CHOOSE i \in DOMAIN cache :
                    /\ \A j \in DOMAIN cache : cache[i].last_access <= cache[j].last_access
                    /\ \A j \in 1..(i - 1) : cache[j].last_access > cache[i].last_access
       IN  Without(cache, lru)

\* set that evicts only once the cache is over max_size
schema_cache_set_evicting_late(cache, key, value, ttl, current_time, default_ttl, max_size) ==
  LET kept == IF Len(cache) > max_size THEN evict_lru(cache) ELSE cache
      entry == CacheEntry(key, value, current_time, IF ttl # 0 THEN ttl ELSE default_ttl,
                          1, current_time)
      i == IndexOf(kept, key)
  IN  IF i = 0 THEN Append(kept, entry) ELSE [kept EXCEPT ![i] = entry]

\* EnterpriseSchemaCache.set; ttl = 0 stands for ttl=None
schema_cache_set(cache, key, value, ttl, current_time, default_ttl, max_size) ==
  LET kept == IF Len(cache) >= max_size THEN evict_lru(cache) ELSE cache
      entry == CacheEntry(key, value, current_time, IF ttl # 0 THEN ttl ELSE default_ttl,
                          1, current_time)
      i == IndexOf(kept, key)
  IN  IF i = 0 THEN Append(kept, entry) ELSE [kept EXCEPT ![i] = entry]

\* "database_schema" is the key of _get_schema_cached; an analysis is stored
\* under the md5 of its query
SchemaKeys == {"database_schema", "md5_a", "md5_b"}
SchemaValues == {"tables_v1"}
\* the ttl arguments of the callers: set(cache_key, schema, ttl=1800) and
\* set(cache_key, result, ttl=600)
AnalysisTTL == 600
ttl_of(key) == IF key = "database_schema" THEN SchemaCacheTTL ELSE AnalysisTTL
SchemaTick == AnalysisTTL

EntInit ==
  /\ now = 0
  /\ PipelineIdle /\ CacheIdle /\ EntIdle /\ GenIdle /\ BrkIdle /\ ProvIdle
  /\ ConcIdle /\ FunIdle /\ RetryIdle /\ RefIdle

\* schema_cache.get(key)
SchemaGet(key) ==
  /\ \A i \in DOMAIN ent_cache :
       ent_cache[i].key = key => ent_cache[i].access_count < MaxAccess
  /\ LET got == schema_cache_get(ent_cache, key, now)
     IN  /\ ent_cache' = got.cache
         /\ ent_op' = [op |-> "get", key |-> key, hit |-> got.hit, value |-> got.value,
                       before |-> ent_cache, at |-> now]
  /\ UNCHANGED <<now, pipeline_vars, cache_op, gen_vars, brk_vars, prov_vars, conc_vars, fun_vars, retry_vars, ref_vars>>

\* schema_cache.set(key, value, ttl)
SchemaSet(key, value) ==
  /\ ent_cache' = schema_cache_set(ent_cache, key, value, ttl_of(key), now, SchemaCacheTTL,
                                   MaxSize)
  /\ ent_op' = [op |-> "set", key |-> key, hit |-> FALSE, value |-> value,
                before |-> ent_cache, at |-> now]
  /\ UNCHANGED <<now, pipeline_vars, cache_op, gen_vars, brk_vars, prov_vars, conc_vars, fun_vars, retry_vars, ref_vars>>

\* time passes for the schema cache
SchemaClock ==
  /\ now < MaxTicks * SchemaTick
  /\ now' = now + SchemaTick
  /\ UNCHANGED <<pipeline_vars, cache_op, ent_vars, gen_vars, brk_vars, prov_vars,
                 conc_vars, fun_vars, retry_vars, ref_vars>>

EntNext ==
  \/ \E k \in SchemaKeys : SchemaGet(k)
  \/ \E k \in SchemaKeys, v \in SchemaValues : SchemaSet(k, v)
  \/ SchemaClock

EntSpec == EntInit /\ [][EntNext]_vars

\* ------------------------------------------------- AirplaneModeSQLGenerator
\* A template is a sequence of literal pieces and {placeholders}.
T(text) == [ph |-> <<>>, lit |-> text]
P(name) == [ph |-> name, lit |-> <<>>]
Indent == <<"\n"," "," "," "," "," "," "," "," "," "," "," "," "," "," "," "," ">>

\* self.sql_templates, in dictionary order
sql_templates ==
  << [name |-> <<"s","h","o","w","_","a","l","l","_","c","u","s","t","o","m","e","r","s">>, source |-> <<"s","h","o","w","\\","s","+","(","a","l","l","\\","s","+",")","?","c","u","s","t","o","m","e","r","s","?">>,
      pattern |-> Cat(<<Lit(<<"s","h","o","w">>), Sp1, Opt(Cat(<<Lit(<<"a","l","l">>), Sp1>>)),
                        LitOpt(<<"c","u","s","t","o","m","e","r">>, "s")>>),
      template |-> <<T(<<"S","E","L","E","C","T"," ","*"," ","F","R","O","M"," ">>), P(<<"c","u","s","t","o","m","e","r","_","t","a","b","l","e">>), T(<<" ","O","R","D","E","R"," ","B","Y"," ">>),
                     P(<<"c","u","s","t","o","m","e","r","_","i","d">>)>>,
      tables_needed |-> <<<<"c","u","s","t","o","m","e","r">>>>],
     [name |-> <<"s","h","o","w","_","a","l","l","_","p","r","o","d","u","c","t","s">>, source |-> <<"s","h","o","w","\\","s","+","(","a","l","l","\\","s","+",")","?","p","r","o","d","u","c","t","s","?">>,
      pattern |-> Cat(<<Lit(<<"s","h","o","w">>), Sp1, Opt(Cat(<<Lit(<<"a","l","l">>), Sp1>>)),
                        LitOpt(<<"p","r","o","d","u","c","t">>, "s")>>),
      template |-> <<T(<<"S","E","L","E","C","T"," ","*"," ","F","R","O","M"," ">>), P(<<"p","r","o","d","u","c","t","_","t","a","b","l","e">>), T(<<" ","O","R","D","E","R"," ","B","Y"," ">>),
                     P(<<"p","r","o","d","u","c","t","_","i","d">>)>>,
      tables_needed |-> <<<<"p","r","o","d","u","c","t">>>>],
     [name |-> <<"s","h","o","w","_","a","l","l","_","o","r","d","e","r","s">>, source |-> <<"s","h","o","w","\\","s","+","(","a","l","l","\\","s","+",")","?","(","o","r","d","e","r","s","?","|","s","a","l","e","s","?",")">>,
      pattern |-> Cat(<<Lit(<<"s","h","o","w">>), Sp1, Opt(Cat(<<Lit(<<"a","l","l">>), Sp1>>)),
                        Alt(<<LitOpt(<<"o","r","d","e","r">>, "s"), LitOpt(<<"s","a","l","e">>, "s")>>)>>),
      template |-> <<T(<<"S","E","L","E","C","T"," ","*"," ","F","R","O","M"," ">>), P(<<"o","r","d","e","r","_","t","a","b","l","e">>), T(<<" ","O","R","D","E","R"," ","B","Y"," ">>),
                     P(<<"o","r","d","e","r","_","d","a","t","e">>), T(<<" ","D","E","S","C">>)>>,
      tables_needed |-> <<<<"o","r","d","e","r">>, <<"s","a","l","e","s">>>>],
     [name |-> <<"c","o","u","n","t","_","c","u","s","t","o","m","e","r","s">>, source |-> <<"(","h","o","w","\\","s","+","m","a","n","y","|","c","o","u","n","t",")","\\","s","+","c","u","s","t","o","m","e","r","s","?">>,
      pattern |-> Cat(<<Alt(<<Cat(<<Lit(<<"h","o","w">>), Sp1, Lit(<<"m","a","n","y">>)>>), Lit(<<"c","o","u","n","t">>)>>),
                        Sp1, LitOpt(<<"c","u","s","t","o","m","e","r">>, "s")>>),
      template |-> <<T(<<"S","E","L","E","C","T"," ","C","O","U","N","T","(","*",")"," ","a","s"," ","c","u","s","t","o","m","e","r","_","c","o","u","n","t"," ","F","R","O","M"," ">>), P(<<"c","u","s","t","o","m","e","r","_","t","a","b","l","e">>)>>,
      tables_needed |-> <<<<"c","u","s","t","o","m","e","r">>>>],
     [name |-> <<"c","o","u","n","t","_","p","r","o","d","u","c","t","s">>, source |-> <<"(","h","o","w","\\","s","+","m","a","n","y","|","c","o","u","n","t",")","\\","s","+","p","r","o","d","u","c","t","s","?">>,
      pattern |-> Cat(<<Alt(<<Cat(<<Lit(<<"h","o","w">>), Sp1, Lit(<<"m","a","n","y">>)>>), Lit(<<"c","o","u","n","t">>)>>),
                        Sp1, LitOpt(<<"p","r","o","d","u","c","t">>, "s")>>),
      template |-> <<T(<<"S","E","L","E","C","T"," ","C","O","U","N","T","(","*",")"," ","a","s"," ","p","r","o","d","u","c","t","_","c","o","u","n","t"," ","F","R","O","M"," ">>), P(<<"p","r","o","d","u","c","t","_","t","a","b","l","e">>)>>,
      tables_needed |-> <<<<"p","r","o","d","u","c","t">>>>],
     [name |-> <<"t","o","t","a","l","_","s","a","l","e","s">>, source |-> <<"t","o","t","a","l","\\","s","+","s","a","l","e","s","?">>,
      pattern |-> Cat(<<Lit(<<"t","o","t","a","l">>), Sp1, LitOpt(<<"s","a","l","e">>, "s")>>),
      template |-> <<T(<<"S","E","L","E","C","T"," ","S","U","M","(">>), P(<<"a","m","o","u","n","t","_","c","o","l","u","m","n">>), T(<<")"," ","a","s"," ","t","o","t","a","l","_","s","a","l","e","s"," ","F","R","O","M"," ">>),
                     P(<<"s","a","l","e","s","_","t","a","b","l","e">>)>>,
      tables_needed |-> <<<<"s","a","l","e","s">>, <<"o","r","d","e","r">>>>],
     [name |-> <<"s","a","l","e","s","_","b","y","_","c","u","s","t","o","m","e","r">>, source |-> <<"s","a","l","e","s","?","\\","s","+","b","y","\\","s","+","c","u","s","t","o","m","e","r","s","?">>,
      pattern |-> Cat(<<LitOpt(<<"s","a","l","e">>, "s"), Sp1, Lit(<<"b","y">>), Sp1,
                        LitOpt(<<"c","u","s","t","o","m","e","r">>, "s")>>),
      template |->
        <<T(Indent \o <<"S","E","L","E","C","T"," ","c",".">>), P(<<"c","u","s","t","o","m","e","r","_","n","a","m","e">>), T(<<","," ","S","U","M","(","s",".">>),
          P(<<"a","m","o","u","n","t","_","c","o","l","u","m","n">>), T(<<")"," ","a","s"," ","t","o","t","a","l","_","s","a","l","e","s">> \o Indent \o <<"F","R","O","M"," ">>),
          P(<<"c","u","s","t","o","m","e","r","_","t","a","b","l","e">>), T(<<" ","c">> \o Indent \o <<"J","O","I","N"," ">>), P(<<"s","a","l","e","s","_","t","a","b","l","e">>),
          T(<<" ","s"," ","O","N"," ","c",".">>), P(<<"c","u","s","t","o","m","e","r","_","i","d">>), T(<<" ","="," ","s",".">>), P(<<"c","u","s","t","o","m","e","r","_","i","d">>),
          T(Indent \o <<"G","R","O","U","P"," ","B","Y"," ","c",".">>), P(<<"c","u","s","t","o","m","e","r","_","i","d">>), T(<<","," ","c",".">>), P(<<"c","u","s","t","o","m","e","r","_","n","a","m","e">>),
          T(Indent \o <<"O","R","D","E","R"," ","B","Y"," ","t","o","t","a","l","_","s","a","l","e","s"," ","D","E","S","C">> \o Indent)>>,
      tables_needed |-> <<<<"c","u","s","t","o","m","e","r">>, <<"s","a","l","e","s">>>>],
     [name |-> <<"s","a","l","e","s","_","b","y","_","r","e","g","i","o","n">>, source |-> <<"s","a","l","e","s","?","\\","s","+","b","y","\\","s","+","r","e","g","i","o","n">>,
      pattern |-> Cat(<<LitOpt(<<"s","a","l","e">>, "s"), Sp1, Lit(<<"b","y">>), Sp1, Lit(<<"r","e","g","i","o","n">>)>>),
      template |->
        <<T(Indent \o <<"S","E","L","E","C","T"," ","a",".">>), P(<<"r","e","g","i","o","n","_","c","o","l","u","m","n">>), T(<<","," ","S","U","M","(","s",".">>),
          P(<<"a","m","o","u","n","t","_","c","o","l","u","m","n">>), T(<<")"," ","a","s"," ","t","o","t","a","l","_","s","a","l","e","s">> \o Indent \o <<"F","R","O","M"," ">>),
          P(<<"s","a","l","e","s","_","t","a","b","l","e">>), T(<<" ","s">> \o Indent \o <<"J","O","I","N"," ">>), P(<<"c","u","s","t","o","m","e","r","_","t","a","b","l","e">>),
          T(<<" ","c"," ","O","N"," ","s",".">>), P(<<"c","u","s","t","o","m","e","r","_","i","d">>), T(<<" ","="," ","c",".">>), P(<<"c","u","s","t","o","m","e","r","_","i","d">>),
          T(Indent \o <<"J","O","I","N"," ">>), P(<<"a","d","d","r","e","s","s","_","t","a","b","l","e">>), T(<<" ","a"," ","O","N"," ","c",".">>), P(<<"a","d","d","r","e","s","s","_","i","d">>),
          T(<<" ","="," ","a",".">>), P(<<"a","d","d","r","e","s","s","_","i","d">>), T(Indent \o <<"G","R","O","U","P"," ","B","Y"," ","a",".">>), P(<<"r","e","g","i","o","n","_","c","o","l","u","m","n">>),
          T(Indent \o <<"O","R","D","E","R"," ","B","Y"," ","t","o","t","a","l","_","s","a","l","e","s"," ","D","E","S","C">> \o Indent)>>,
      tables_needed |-> <<<<"s","a","l","e","s">>, <<"c","u","s","t","o","m","e","r">>, <<"a","d","d","r","e","s","s">>>>],
     [name |-> <<"s","a","l","e","s","_","b","y","_","p","r","o","d","u","c","t">>, source |-> <<"s","a","l","e","s","?","\\","s","+","b","y","\\","s","+","p","r","o","d","u","c","t","s","?">>,
      pattern |-> Cat(<<LitOpt(<<"s","a","l","e">>, "s"), Sp1, Lit(<<"b","y">>), Sp1,
                        LitOpt(<<"p","r","o","d","u","c","t">>, "s")>>),
      template |->
        <<T(Indent \o <<"S","E","L","E","C","T"," ","p",".">>), P(<<"p","r","o","d","u","c","t","_","n","a","m","e">>), T(<<","," ","S","U","M","(","s","d",".">>),
          P(<<"q","u","a","n","t","i","t","y","_","c","o","l","u","m","n">>), T(<<" ","*"," ","s","d",".">>), P(<<"p","r","i","c","e","_","c","o","l","u","m","n">>),
          T(<<")"," ","a","s"," ","t","o","t","a","l","_","s","a","l","e","s">> \o Indent \o <<"F","R","O","M"," ">>), P(<<"p","r","o","d","u","c","t","_","t","a","b","l","e">>),
          T(<<" ","p">> \o Indent \o <<"J","O","I","N"," ">>), P(<<"s","a","l","e","s","_","d","e","t","a","i","l","_","t","a","b","l","e">>), T(<<" ","s","d"," ","O","N"," ","p",".">>),
          P(<<"p","r","o","d","u","c","t","_","i","d">>), T(<<" ","="," ","s","d",".">>), P(<<"p","r","o","d","u","c","t","_","i","d">>), T(Indent \o <<"G","R","O","U","P"," ","B","Y"," ","p",".">>),
          P(<<"p","r","o","d","u","c","t","_","i","d">>), T(<<","," ","p",".">>), P(<<"p","r","o","d","u","c","t","_","n","a","m","e">>),
          T(Indent \o <<"O","R","D","E","R"," ","B","Y"," ","t","o","t","a","l","_","s","a","l","e","s"," ","D","E","S","C">> \o Indent)>>,
      tables_needed |-> <<<<"p","r","o","d","u","c","t">>, <<"s","a","l","e","s","_","d","e","t","a","i","l">>>>] >>

\* self.column_patterns, in dictionary order
column_patterns ==
  << [type |-> <<"c","u","s","t","o","m","e","r","_","i","d">>,
      patterns |-> <<<<"c","u","s","t","o","m","e","r","i","d">>, <<"c","u","s","t","o","m","e","r","_","i","d">>, <<"c","u","s","t","i","d">>, <<"i","d">>>>],
     [type |-> <<"c","u","s","t","o","m","e","r","_","n","a","m","e">>,
      patterns |-> <<<<"c","u","s","t","o","m","e","r","n","a","m","e">>, <<"c","u","s","t","o","m","e","r","_","n","a","m","e">>, <<"n","a","m","e">>, <<"f","u","l","l","n","a","m","e">>,
                     <<"f","i","r","s","t","n","a","m","e">>>>],
     [type |-> <<"p","r","o","d","u","c","t","_","i","d">>, patterns |-> <<<<"p","r","o","d","u","c","t","i","d">>, <<"p","r","o","d","u","c","t","_","i","d">>, <<"i","d">>>>],
     [type |-> <<"p","r","o","d","u","c","t","_","n","a","m","e">>,
      patterns |-> <<<<"p","r","o","d","u","c","t","n","a","m","e">>, <<"p","r","o","d","u","c","t","_","n","a","m","e">>, <<"n","a","m","e">>, <<"t","i","t","l","e">>>>],
     [type |-> <<"o","r","d","e","r","_","i","d">>,
      patterns |-> <<<<"o","r","d","e","r","i","d">>, <<"o","r","d","e","r","_","i","d">>, <<"s","a","l","e","s","o","r","d","e","r","i","d">>, <<"i","d">>>>],
     [type |-> <<"o","r","d","e","r","_","d","a","t","e">>,
      patterns |-> <<<<"o","r","d","e","r","d","a","t","e">>, <<"o","r","d","e","r","_","d","a","t","e">>, <<"d","a","t","e">>, <<"c","r","e","a","t","e","d","_","d","a","t","e">>,
                     <<"s","a","l","e","s","o","r","d","e","r","d","a","t","e">>>>],
     [type |-> <<"a","m","o","u","n","t","_","c","o","l","u","m","n">>,
      patterns |-> <<<<"t","o","t","a","l">>, <<"a","m","o","u","n","t">>, <<"t","o","t","a","l","p","r","i","c","e">>, <<"s","u","b","t","o","t","a","l">>, <<"t","o","t","a","l","d","u","e">>>>],
     [type |-> <<"q","u","a","n","t","i","t","y","_","c","o","l","u","m","n">>, patterns |-> <<<<"q","u","a","n","t","i","t","y">>, <<"q","t","y">>, <<"o","r","d","e","r","q","t","y">>>>],
     [type |-> <<"p","r","i","c","e","_","c","o","l","u","m","n">>, patterns |-> <<<<"p","r","i","c","e">>, <<"u","n","i","t","p","r","i","c","e">>, <<"l","i","s","t","p","r","i","c","e">>>>],
     [type |-> <<"a","d","d","r","e","s","s","_","i","d">>, patterns |-> <<<<"a","d","d","r","e","s","s","i","d">>, <<"a","d","d","r","e","s","s","_","i","d">>, <<"i","d">>>>],
     [type |-> <<"r","e","g","i","o","n","_","c","o","l","u","m","n">>,
      patterns |-> <<<<"r","e","g","i","o","n">>, <<"s","t","a","t","e">>, <<"s","t","a","t","e","p","r","o","v","i","n","c","e">>, <<"c","o","u","n","t","r","y">>, <<"t","e","r","r","i","t","o","r","y">>>>] >>

\* _find_table_by_type: type_patterns.get(table_type, [table_type])
type_patterns(table_type) ==
  CASE table_type = <<"c","u","s","t","o","m","e","r">> -> <<<<"c","u","s","t","o","m","e","r">>, <<"c","l","i","e","n","t">>, <<"u","s","e","r">>, <<"p","e","r","s","o","n">>>>
    [] table_type = <<"p","r","o","d","u","c","t">> -> <<<<"p","r","o","d","u","c","t">>, <<"i","t","e","m">>, <<"c","a","t","a","l","o","g">>>>
    [] table_type = <<"s","a","l","e","s">> -> <<<<"s","a","l","e","s">>, <<"o","r","d","e","r">>>>
    [] table_type = <<"o","r","d","e","r">> -> <<<<"o","r","d","e","r">>, <<"s","a","l","e","s">>>>
    [] table_type = <<"s","a","l","e","s","_","d","e","t","a","i","l">> -> <<<<"o","r","d","e","r","d","e","t","a","i","l">>, <<"s","a","l","e","s","o","r","d","e","r","d","e","t","a","i","l">>, <<"d","e","t","a","i","l">>>>
    [] table_type = <<"a","d","d","r","e","s","s">> -> <<<<"a","d","d","r","e","s","s">>, <<"l","o","c","a","t","i","o","n">>>>
    [] OTHER -> <<table_type>>

EndsWith(s, p) == Len(p) <= Len(s) /\ SubSeq(s, Len(s) - Len(p) + 1, Len(s)) = p

\* a table and its columns, as a dict or as an object with attributes
GenColumn(name, primary_key) == [name |-> name, primary_key |-> primary_key]
GenTable(format, schema, name, columns) ==
  [format |-> format, schema |-> schema, name |-> name, columns |-> columns]

\* _find_table_by_type: the index of the first table whose name contains one
\* of the type's patterns; 0 stands for None
find_table_by_type(tables, table_type) ==
  LET fits == {t \in DOMAIN tables :
                 ContainsAny(Lower(tables[t].name), type_patterns(table_type))}
  IN  IF fits = {} THEN 0 ELSE CHOOSE t \in fits : \A u \in fits : t <= u

\* _find_column_by_pattern; <<>> stands for None
find_column_by_pattern(table, column_type) ==
  LET known == {k \in DOMAIN column_patterns : column_patterns[k].type = column_type}
      patterns == IF known = {} THEN <<column_type>>
                  ELSE column_patterns[CHOOSE k \in known : TRUE].patterns
      columns == table.columns
      fits == {c \in DOMAIN columns : ContainsAny(Lower(columns[c].name), patterns)}
      keys == {c \in DOMAIN columns : columns[c].primary_key}
  IN  IF fits # {} THEN columns[CHOOSE c \in fits : \A d \in fits : c <= d].name
      ELSE IF EndsWith(column_type, <<"_","i","d">>) /\ columns # <<>>
        THEN IF keys # {} THEN columns[CHOOSE c \in keys : \A d \in keys : c <= d].name
             ELSE columns[1].name
      ELSE <<>>

\* generate_sql_fast: the column types looked up for a table type
column_applies(column_type, table_type) ==
  \/ StartsWith(column_type, table_type)
  \/ column_type \in {<<"a","m","o","u","n","t","_","c","o","l","u","m","n">>, <<"q","u","a","n","t","i","t","y","_","c","o","l","u","m","n">>, <<"p","r","i","c","e","_","c","o","l","u","m","n">>,
                      <<"r","e","g","i","o","n","_","c","o","l","u","m","n">>}

\* generate_sql_fast: table_mappings and column_mappings after the loop over
\* tables_needed, as the value of a placeholder; <<>> when it has none.  A
\* later table type overwrites the column an earlier one set.
placeholder_value(tables, tables_needed, placeholder) ==
  LET found == {n \in DOMAIN tables_needed :
                  find_table_by_type(tables, tables_needed[n]) # 0}
      table_of(n) == tables[find_table_by_type(tables, tables_needed[n])]
      as_table == {n \in found : placeholder = tables_needed[n] \o <<"_","t","a","b","l","e">>}
      as_column == {n \in found :
                      /\ \E k \in DOMAIN column_patterns :
                           column_patterns[k].type = placeholder
                      /\ column_applies(placeholder, tables_needed[n])
                      /\ find_column_by_pattern(table_of(n), placeholder) # <<>>}
      latest(ns) == CHOOSE n \in ns : \A m \in ns : m <= n
  IN  IF as_table # {}
        THEN table_of(latest(as_table)).schema \o <<".">> \o table_of(latest(as_table)).name
      ELSE IF as_column # {}
        THEN find_column_by_pattern(table_of(latest(as_column)), placeholder)
      ELSE <<>>

RECURSIVE Concat(_)
Concat(texts) == IF texts = <<>> THEN <<>> ELSE Head(texts) \o Concat(Tail(texts))

\* the template with its placeholders replaced; what is left of them becomes
\* UNKNOWN_COLUMN
fill_template(template, tables, tables_needed) ==
  Concat([k \in DOMAIN template |->
            IF template[k].ph = <<>> THEN template[k].lit
            ELSE LET value == placeholder_value(tables, tables_needed, template[k].ph)
                 IN  IF value # <<>> THEN value ELSE <<"U","N","K","N","O","W","N","_","C","O","L","U","M","N">>])

\* ' '.join(text.split())
NormalizeSpace(text) ==
  LET space(i) == text[i] \in Whitespace
      keep(i) == \/ ~space(i)
                 \/ /\ i > 1 /\ ~space(i - 1)
                    /\ \E j \in (i + 1)..Len(text) : ~space(j)
      kept == SelectSeq([i \in DOMAIN text |-> i], keep)
  IN  [n \in DOMAIN kept |-> IF space(kept[n]) THEN " " ELSE text[kept[n]]]

\* f"{processing_time:.3f}": the time the generation took
ProcessingTimes == {<<"0",".","0","0","0">>, <<"0",".","0","0","1">>}

\* generate_sql_fast: the texts it can return
generate_sql_fast(query, tables) ==
  LET query_lower == Strip(Lower(query))
      matching == {k \in DOMAIN sql_templates :
                     ReSearch(sql_templates[k].pattern, query_lower)}
  IN  IF matching # {}
        THEN LET config == sql_templates[CHOOSE k \in matching : \A m \in matching : k <= m]
                 formatted_sql ==
                   NormalizeSpace(fill_template(config.template, tables,
                                                config.tables_needed))
             IN  { <<"-","-"," ","A","I","R","P","L","A","N","E"," ","M","O","D","E"," ","S","Q","L"," ","(">> \o <<"U+26A1">> \o <<" ">> \o processing_time
                     \o <<"s",")","\n","-","-"," ","T","e","m","p","l","a","t","e",":"," ">> \o config.name \o <<"\n","-","-"," ","P","a","t","t","e","r","n",":"," ">>
                     \o config.source \o <<"\n","\n">> \o formatted_sql
                   : processing_time \in ProcessingTimes }
      ELSE IF tables # <<>>
        THEN IF tables[1].format = "dict"
               THEN { <<"-","-"," ","A","I","R","P","L","A","N","E"," ","M","O","D","E"," ","F","A","L","L","B","A","C","K"," ","S","Q","L"," ","(">> \o <<"U+26A1">> \o <<" ">>
                        \o processing_time
                        \o <<"s",")","\n","-","-"," ","N","o"," ","s","p","e","c","i","f","i","c"," ","t","e","m","p","l","a","t","e"," ","m","a","t","c","h","e","d",","," ","s","h","o","w","i","n","g"," ","b","a","s","i","c"," ","q","u","e","r","y","\n","\n">>
                        \o <<"S","E","L","E","C","T"," ","*"," ","F","R","O","M"," ">> \o tables[1].schema \o <<".">> \o tables[1].name
                        \o <<" ","O","R","D","E","R"," ","B","Y"," ","1">>
                      : processing_time \in ProcessingTimes }
               ELSE {<<"-","-"," ","A","i","r","p","l","a","n","e"," ","m","o","d","e"," ","S","Q","L"," ","g","e","n","e","r","a","t","i","o","n"," ","e","r","r","o","r",":"," ","'","T","a","b","l","e","I","n","f","o","'"," ","o","b","j","e","c","t"," ","i","s"," ","n","o","t"," ","s","u","b","s","c","r","i","p","t","a","b","l","e">>}
      ELSE {<<"-","-"," ","N","o"," ","t","a","b","l","e","s"," ","a","v","a","i","l","a","b","l","e"," ","f","o","r"," ","S","Q","L"," ","g","e","n","e","r","a","t","i","o","n">>}

\* generate_sql: {success, sql}
generate_sql(query, tables) ==
  { IF /\ sql_result # <<>>
       /\ ~StartsWith(sql_result, <<"-","-"," ","N","o"," ","t","a","b","l","e","s">>)
       /\ ~StartsWith(sql_result, <<"-","-"," ","A","i","r","p","l","a","n","e"," ","m","o","d","e"," ","S","Q","L"," ","g","e","n","e","r","a","t","i","o","n"," ","e","r","r","o","r">>)
      THEN [success |-> TRUE, sql |-> sql_result]
      ELSE [success |-> FALSE, sql |-> <<>>]
    : sql_result \in generate_sql_fast(query, tables) }

\* ---------------------------------------- the generator's inputs and operations
GenCustomer ==
  <<GenColumn(<<"C","u","s","t","o","m","e","r","I","D">>, TRUE), GenColumn(<<"F","i","r","s","t","N","a","m","e">>, FALSE)>>
GenOrderHeader ==
  <<GenColumn(<<"S","a","l","e","s","O","r","d","e","r","I","D">>, TRUE), GenColumn(<<"C","u","s","t","o","m","e","r","I","D">>, FALSE),
    GenColumn(<<"T","o","t","a","l","D","u","e">>, FALSE)>>
GenProduct ==
  <<GenColumn(<<"N","a","m","e">>, FALSE), GenColumn(<<"L","i","s","t","P","r","i","c","e">>, FALSE)>>

GenTableLists ==
  { <<>>,
    <<GenTable("dict", <<"S","a","l","e","s","L","T">>, <<"C","u","s","t","o","m","e","r">>, GenCustomer),
      GenTable("dict", <<"S","a","l","e","s","L","T">>, <<"S","a","l","e","s","O","r","d","e","r","H","e","a","d","e","r">>, GenOrderHeader),
      GenTable("dict", <<"S","a","l","e","s","L","T">>, <<"P","r","o","d","u","c","t">>, GenProduct)>>,
    <<GenTable("dict", <<"S","a","l","e","s","L","T">>, <<"P","r","o","d","u","c","t">>, GenProduct)>>,
    <<GenTable("TableInfo", <<"S","a","l","e","s","L","T">>, <<"C","u","s","t","o","m","e","r">>, GenCustomer),
      GenTable("TableInfo", <<"S","a","l","e","s","L","T">>, <<"S","a","l","e","s","O","r","d","e","r","H","e","a","d","e","r">>, GenOrderHeader)>> }

GenQueries ==
  { <<>>, <<"h","e","l","l","o">>, <<"c","a","f","U+00E9"," ","v","e","n","t","e","s">>, <<"C","o","u","n","t"," ","C","u","s","t","o","m","e","r","s">>, <<"h","o","w"," ","m","a","n","y"," ","p","r","o","d","u","c","t","s">>,
    <<"s","h","o","w"," ","a","l","l"," ","o","r","d","e","r","s">>, <<"t","o","t","a","l"," ","s","a","l","e","s">>, <<"s","a","l","e","s"," ","b","y"," ","c","u","s","t","o","m","e","r">>, <<"s","a","l","e","s"," ","b","y"," ","r","e","g","i","o","n">>,
    <<"s","a","l","e","s"," ","b","y"," ","p","r","o","d","u","c","t">> }

GenOut(op, sql, success) == [op |-> op, sql |-> sql, success |-> success]

GenInit ==
  /\ now = 0
  /\ PipelineIdle /\ CacheIdle /\ EntIdle /\ GenIdle /\ BrkIdle /\ ProvIdle
  /\ ConcIdle /\ FunIdle /\ RetryIdle /\ RefIdle

\* AirplaneModeSQLGenerator.generate_sql_fast(query, tables)
GenerateSqlFast(query, tables) ==
  /\ \E sql \in generate_sql_fast(query, tables) :
       gen_out' = GenOut("generate_sql_fast", sql, TRUE)
  /\ gen_in' = [query |-> query, tables |-> tables]
  /\ UNCHANGED <<now, pipeline_vars, cache_op, ent_vars, brk_vars, prov_vars, conc_vars, fun_vars, retry_vars, ref_vars>>

\* AirplaneModeSQLGenerator.generate_sql(query, {"relevant_tables": tables})
GenerateSql(query, tables) ==
  /\ \E r \in generate_sql(query, tables) :
       gen_out' = GenOut("generate_sql", r.sql, r.success)
  /\ gen_in' = [query |-> query, tables |-> tables]
  /\ UNCHANGED <<now, pipeline_vars, cache_op, ent_vars, brk_vars, prov_vars, conc_vars, fun_vars, retry_vars, ref_vars>>

\* the query text _handle_airplane_mode builds before it executes it
AirplaneTemplate(query) ==
  /\ gen_out' = GenOut("airplane_template", airplane_sql(query), TRUE)
  /\ gen_in' = [query |-> query, tables |-> <<>>]
  /\ UNCHANGED <<now, pipeline_vars, cache_op, ent_vars, brk_vars, prov_vars, conc_vars, fun_vars, retry_vars, ref_vars>>

GenNext ==
  \/ \E query \in GenQueries, tables \in GenTableLists : GenerateSqlFast(query, tables)
  \/ \E query \in GenQueries, tables \in GenTableLists : GenerateSql(query, tables)
  \/ \E query \in GenQueries : AirplaneTemplate(query)

GenSpec == GenInit /\ [][GenNext]_vars

\* -------------------------------------------------------------- CircuitBreaker
\* self.db_circuit_breaker = CircuitBreaker(failure_threshold=3,
\* recovery_timeout=30, expected_exception=Exception)
FailureThreshold == 3
RecoveryTimeout == 30
BreakerTick == RecoveryTimeout \div 2

\* _should_attempt_reset
should_attempt_reset(cb, time, recovery_timeout) ==
  time - cb.last_failure_time >= recovery_timeout

\* _on_success that leaves failure_count as it is
on_success_keeping_count(cb) == [cb EXCEPT !.state = "CLOSED"]

\* _on_success
on_success(cb) == [cb EXCEPT !.failure_count = 0, !.state = "CLOSED"]

\* _on_failure that does not record the time of the failure
on_failure_keeping_time(cb, time, failure_threshold) ==
  [state |-> IF cb.failure_count + 1 >= failure_threshold THEN "OPEN" ELSE cb.state,
   failure_count |-> cb.failure_count + 1,
   last_failure_time |-> cb.last_failure_time]

\* _on_failure
on_failure(cb, time, failure_threshold) ==
  [state |-> IF cb.failure_count + 1 >= failure_threshold THEN "OPEN" ELSE cb.state,
   failure_count |-> cb.failure_count + 1,
   last_failure_time |-> time]

\* the head of call that lets every caller through
call_admission_always(cb, time, recovery_timeout) ==
  [admitted |-> TRUE, probe |-> FALSE, breaker |-> cb]

\* the head of call that closes the breaker once the timeout has elapsed
call_admission_closing(cb, time, recovery_timeout) ==
  IF cb.state = "OPEN"
    THEN IF should_attempt_reset(cb, time, recovery_timeout)
           THEN [admitted |-> TRUE, probe |-> TRUE,
                 breaker |-> [cb EXCEPT !.state = "CLOSED"]]
           ELSE [admitted |-> FALSE, probe |-> FALSE, breaker |-> cb]
    ELSE [admitted |-> TRUE, probe |-> FALSE, breaker |-> cb]

\* the head of call that stays OPEN for the probe
call_admission_staying_open(cb, time, recovery_timeout) ==
  IF cb.state = "OPEN"
    THEN IF should_attempt_reset(cb, time, recovery_timeout)
           THEN [admitted |-> TRUE, probe |-> TRUE, breaker |-> cb]
           ELSE [admitted |-> FALSE, probe |-> FALSE, breaker |-> cb]
    ELSE [admitted |-> TRUE, probe |-> FALSE, breaker |-> cb]

\* the head of call in which a rejection counts as a failure time
call_admission_postponing(cb, time, recovery_timeout) ==
  IF cb.state = "OPEN"
    THEN IF should_attempt_reset(cb, time, recovery_timeout)
           THEN [admitted |-> TRUE, probe |-> TRUE,
                 breaker |-> [cb EXCEPT !.state = "HALF_OPEN"]]
           ELSE [admitted |-> FALSE, probe |-> FALSE,
                 breaker |-> [cb EXCEPT !.last_failure_time = time]]
    ELSE [admitted |-> TRUE, probe |-> FALSE, breaker |-> cb]

\* call, lines 52-56: whether the caller gets to the wrapped function, whether
\* as the HALF_OPEN probe, and the breaker after it
call_admission(cb, time, recovery_timeout) ==
  IF cb.state = "OPEN"
    THEN IF should_attempt_reset(cb, time, recovery_timeout)
           THEN [admitted |-> TRUE, probe |-> TRUE,
                 breaker |-> [cb EXCEPT !.state = "HALF_OPEN"]]
           ELSE [admitted |-> FALSE, probe |-> FALSE, breaker |-> cb]
    ELSE [admitted |-> TRUE, probe |-> FALSE, breaker |-> cb]

\* `with self._lock` entered without the lock being respected
lock_is_free_never_held(holder) == TRUE

\* threading.Lock: it can be taken when nobody holds it
lock_is_free(holder) == holder = 0

BrkOp(kind, caller, streak) ==
  [kind |-> kind, caller |-> caller, before |-> breaker, at |-> now, streak |-> streak]

BrkInit ==
  /\ now = 0
  /\ PipelineIdle /\ CacheIdle /\ EntIdle /\ GenIdle /\ BrkIdle /\ ProvIdle
  /\ ConcIdle /\ FunIdle /\ RetryIdle /\ RefIdle

\* a thread calls CircuitBreaker.call and reaches `with self._lock`
CallArrive(c) ==
  /\ threads[c].pc = "idle"
  /\ threads' = [threads EXCEPT ![c] =
                   [pc |-> "waiting", probe |-> FALSE,
                    during_probe |-> breaker.state = "HALF_OPEN" /\ lock # 0,
                    outcome |-> "none"]]
  /\ brk_op' = BrkOp("arrive", c, brk_op.streak)
  /\ UNCHANGED <<now, pipeline_vars, cache_op, ent_vars, gen_vars, breaker, lock, prov_vars,
                 conc_vars, fun_vars, retry_vars, ref_vars>>

\* the thread takes the lock and runs lines 52-56: it is rejected, or it goes
\* on to the wrapped function, holding the lock
CallEnter(c) ==
  /\ threads[c].pc = "waiting"
  /\ lock_is_free(lock)
  /\ LET a == call_admission(breaker, now, RecoveryTimeout)
     IN  /\ breaker' = a.breaker
         /\ IF a.admitted
              THEN /\ lock' = c
                   /\ threads' = [threads EXCEPT ![c].pc = "running", ![c].probe = a.probe]
                   /\ brk_op' = BrkOp("admit", c, brk_op.streak)
              ELSE /\ lock' = lock
                   /\ threads' = [threads EXCEPT ![c].pc = "idle",
                                                 ![c].outcome = "circuit_open"]
                   /\ brk_op' = BrkOp("reject", c, brk_op.streak)
  /\ UNCHANGED <<now, pipeline_vars, cache_op, ent_vars, gen_vars, prov_vars, conc_vars, fun_vars, retry_vars, ref_vars>>

\* the wrapped function returns: _on_success, the lock is released
CallSucceed(c) ==
  /\ threads[c].pc = "running"
  /\ breaker' = on_success(breaker)
  /\ lock' = IF lock = c THEN 0 ELSE lock
  /\ threads' = [threads EXCEPT ![c].pc = "idle", ![c].outcome = "returned"]
  /\ brk_op' = BrkOp("success", c, 0)
  /\ UNCHANGED <<now, pipeline_vars, cache_op, ent_vars, gen_vars, prov_vars, conc_vars, fun_vars, retry_vars, ref_vars>>

\* the wrapped function raises: _on_failure, the lock is released, the
\* exception goes to the caller
CallFail(c) ==
  /\ threads[c].pc = "running"
  /\ breaker' = on_failure(breaker, now, FailureThreshold)
  /\ lock' = IF lock = c THEN 0 ELSE lock
  /\ threads' = [threads EXCEPT ![c].pc = "idle", ![c].outcome = "raised"]
  /\ brk_op' = BrkOp("failure", c, brk_op.streak + 1)
  /\ UNCHANGED <<now, pipeline_vars, cache_op, ent_vars, gen_vars, prov_vars, conc_vars, fun_vars, retry_vars, ref_vars>>

\* time passes for the breaker
BreakerClock ==
  /\ now < MaxTicks * RecoveryTimeout
  /\ now' = now + BreakerTick
  /\ UNCHANGED <<pipeline_vars, cache_op, ent_vars, gen_vars, brk_vars, prov_vars,
                 conc_vars, fun_vars, retry_vars, ref_vars>>

BrkNext ==
  \/ \E c \in Callers : CallArrive(c)
  \/ \E c \in Callers : CallEnter(c)
  \/ \E c \in Callers : CallSucceed(c)
  \/ \E c \in Callers : CallFail(c)
  \/ BreakerClock

BrkSpec == BrkInit /\ [][BrkNext]_vars

\* The breaker when the wrapped function recovers: it raises only while a
\* whole recovery_timeout of the modelled time is still to come, time goes
\* on, callers keep arriving, the lock is handed on and the function, once
\* entered, ends.
CallFailEarly(c) ==
  /\ now + RecoveryTimeout <= MaxTicks * RecoveryTimeout
  /\ CallFail(c)

BrkLiveNext ==
  \/ \E c \in Callers : CallArrive(c)
  \/ \E c \in Callers : CallEnter(c)
  \/ \E c \in Callers : CallSucceed(c)
  \/ \E c \in Callers : CallFailEarly(c)
  \/ BreakerClock

BrkLiveSpec ==
  /\ BrkInit
  /\ [][BrkLiveNext]_vars
  /\ WF_vars(BreakerClock)
  /\ WF_vars(\E c \in Callers : CallArrive(c))
  /\ WF_vars(\E c \in Callers : CallEnter(c))
  /\ WF_vars(\E c \in Callers : CallSucceed(c) \/ CallFailEarly(c))
\* ------------------------------------- EnterpriseSchemaAnalyst._get_schema_cached
\* cache_key of _get_schema_cached
SchemaKey == "database_schema"
\* what _load_schema can do: return the tables of the database, or raise
DbSchemas == {"tables_v1", "tables_v2"}
DbRaises == "raises"
DbOutcomes == DbSchemas \cup {DbRaises}
\* the list [] that _get_schema_cached returns at its end
EmptyList == "[]"
\* (time.time() - entry.timestamp) > 900
RefreshAge == 900
\* ThreadPoolExecutor(max_workers=2)
max_workers == 2
\* refresh tasks submitted and not finished are followed up to MaxRefresh
MaxRefresh == 2
ProvTick == RefreshAge

\* _load_schema_with_circuit_breaker: db_circuit_breaker.call(_load_schema),
\* by one caller at a time
load_schema_with_circuit_breaker(cb, time, db) ==
  LET adm == call_admission(cb, time, RecoveryTimeout)
  IN  IF ~adm.admitted
        THEN [breaker |-> adm.breaker, raised |-> TRUE, schema |-> "None",
              called |-> FALSE]
      ELSE IF db = DbRaises
        THEN [breaker |-> on_failure(adm.breaker, time, FailureThreshold),
              raised |-> TRUE, schema |-> "None", called |-> TRUE]
      ELSE [breaker |-> on_success(adm.breaker), raised |-> FALSE, schema |-> db,
            called |-> TRUE]

\* entry and (time.time() - entry.timestamp) > 900
needs_refresh(cache, key, time) ==
  LET i == IndexOf(cache, key)
  IN  i # 0 /\ time - cache[i].timestamp > RefreshAge

\* _get_schema_cached after a miss: load, then set or the stale lookup
get_schema_miss(cache, cb, time, db) ==
  LET loaded == load_schema_with_circuit_breaker(cb, time, db)
      i == IndexOf(cache, SchemaKey)
  IN  IF ~loaded.raised
        THEN [cache |-> schema_cache_set(cache, SchemaKey, loaded.schema, SchemaCacheTTL,
                                         time, SchemaCacheTTL, MaxSize),
              breaker |-> loaded.breaker, raised |-> FALSE, returned |-> loaded.schema]
      ELSE [cache |-> cache, breaker |-> loaded.breaker, raised |-> TRUE,
            returned |-> IF i # 0 THEN cache[i].data ELSE EmptyList]

\* a refresh that removes the entry when the load failed
refresh_entry_dropping(cache, key, task, time) ==
  IF task.raised
    THEN IF IndexOf(cache, key) = 0 THEN cache ELSE Without(cache, IndexOf(cache, key))
    ELSE schema_cache_set(cache, key, task.value, 0, time, SchemaCacheTTL, MaxSize)

\* _refresh_entry after refresh_func: self.set(key, new_value), or the
\* except clause
refresh_entry(cache, key, task, time) ==
  IF task.raised THEN cache
  ELSE schema_cache_set(cache, key, task.value, 0, time, SchemaCacheTTL, MaxSize)

ProvOp(kind, returned, raised, submitted) ==
  [kind |-> kind, returned |-> returned, raised |-> raised, expired |-> getter.expired,
   submitted |-> submitted, before |-> ent_cache, breaker_before |-> breaker,
   tasks_before |-> refresh, at |-> now]

ProvInit ==
  /\ now = 0
  /\ PipelineIdle /\ CacheIdle /\ EntIdle /\ GenIdle /\ BrkIdle /\ ProvIdle
  /\ ConcIdle /\ FunIdle /\ RetryIdle /\ RefIdle

\* _get_schema_cached: cached_schema = self.schema_cache.get(cache_key)
GetSchemaLookup ==
  /\ getter.pc = "idle"
  /\ \A i \in DOMAIN ent_cache : ent_cache[i].access_count < MaxAccess
  /\ LET got == schema_cache_get(ent_cache, SchemaKey, now)
         i == IndexOf(ent_cache, SchemaKey)
         expired == IF i # 0 /\ ~got.hit THEN ent_cache[i].data ELSE "None"
     IN  /\ ent_cache' = got.cache
         /\ getter' = [pc |-> IF got.hit THEN "hit" ELSE "miss", data |-> got.value,
                       expired |-> expired]
         /\ prov_op' = [ProvOp("lookup", got.value, FALSE, FALSE) EXCEPT
                          !.expired = expired]
  /\ UNCHANGED <<now, pipeline_vars, cache_op, ent_op, gen_vars, brk_vars, refresh,
                 conc_vars, fun_vars, retry_vars, ref_vars>>

\* _get_schema_cached on a hit: the age test, background_refresh, return
GetSchemaHit ==
  /\ getter.pc = "hit"
  /\ LET submit == needs_refresh(ent_cache, SchemaKey, now)
     IN  /\ submit => Len(refresh) < MaxRefresh
         /\ refresh' = IF submit
                         THEN Append(refresh, [pc |-> "queued", raised |-> FALSE,
                                               value |-> "None"])
                         ELSE refresh
         /\ prov_op' = ProvOp("hit_return", getter.data, FALSE, submit)
  /\ getter' = NoGetter
  /\ UNCHANGED <<now, pipeline_vars, cache_op, ent_vars, gen_vars, brk_vars, conc_vars, fun_vars, retry_vars, ref_vars>>

\* _get_schema_cached on a miss: load, set and return, or the except clause
GetSchemaMiss(db) ==
  /\ getter.pc = "miss"
  /\ LET got == get_schema_miss(ent_cache, breaker, now, db)
     IN  /\ ent_cache' = got.cache
         /\ breaker' = got.breaker
         /\ prov_op' = ProvOp("miss_return", got.returned, got.raised, FALSE)
  /\ getter' = NoGetter
  /\ UNCHANGED <<now, pipeline_vars, cache_op, ent_op, gen_vars, lock, threads, brk_op,
                 refresh, conc_vars, fun_vars, retry_vars, ref_vars>>

\* _refresh_entry on a worker: new_value = refresh_func(); the first task
\* of the queue starts when a worker is free
RefreshLoad(db) ==
  /\ \E n \in DOMAIN refresh :
       /\ refresh[n].pc = "queued"
       /\ \A k \in 1..(n - 1) : refresh[k].pc = "loaded"
       /\ n - 1 < max_workers
       /\ LET loaded == load_schema_with_circuit_breaker(breaker, now, db)
          IN  /\ breaker' = loaded.breaker
              /\ refresh' = [refresh EXCEPT ![n] = [pc |-> "loaded",
                                                    raised |-> loaded.raised,
                                                    value |-> loaded.schema]]
              /\ prov_op' = ProvOp("refresh_load", loaded.schema, loaded.raised, FALSE)
  /\ UNCHANGED <<now, pipeline_vars, cache_op, ent_vars, gen_vars, lock, threads, brk_op,
                 getter, conc_vars, fun_vars, retry_vars, ref_vars>>

\* _refresh_entry on a worker: self.set(key, new_value), or the except clause
RefreshEntry(n) ==
  /\ n \in DOMAIN refresh
  /\ refresh[n].pc = "loaded"
  /\ ent_cache' = refresh_entry(ent_cache, SchemaKey, refresh[n], now)
  /\ refresh' = SubSeq(refresh, 1, n - 1) \o SubSeq(refresh, n + 1, Len(refresh))
  /\ prov_op' = ProvOp("refresh_entry", refresh[n].value, refresh[n].raised, FALSE)
  /\ UNCHANGED <<now, pipeline_vars, cache_op, ent_op, gen_vars, brk_vars, getter,
                 conc_vars, fun_vars, retry_vars, ref_vars>>

\* time passes for the schema provider
ProvClock ==
  /\ now < MaxTicks * SchemaCacheTTL
  /\ now' = now + ProvTick
  /\ UNCHANGED <<pipeline_vars, cache_op, ent_vars, gen_vars, brk_vars, prov_vars,
                 conc_vars, fun_vars, retry_vars, ref_vars>>

ProvNext ==
  \/ GetSchemaLookup
  \/ GetSchemaHit
  \/ \E db \in DbOutcomes : GetSchemaMiss(db)
  \/ \E db \in DbOutcomes : RefreshLoad(db)
  \/ \E n \in 1..MaxRefresh : RefreshEntry(n)
  \/ ProvClock

ProvSpec == ProvInit /\ [][ProvNext]_vars
\* --------------------------------- QueryResultCache shared by request workers
\* The methods of QueryResultCache take no lock: between two accesses of
\* _query_cache by one worker, another worker can run.  Each action below is
\* one access of the dictionary.
ConcQueries == {Q_count_customers, Q_hello}
ConcResult ==
  Result(TRUE, <<"S","E","L","E","C","T"," ","A">>, "rows", "Direct generation successful.", "direct_generation")

ConcInit ==
  /\ now = 0
  /\ PipelineIdle /\ CacheIdle /\ EntIdle /\ GenIdle /\ BrkIdle /\ ProvIdle
  /\ ConcIdle /\ FunIdle /\ RetryIdle /\ RefIdle

ConcUnchanged ==
  UNCHANGED <<now, schema_cache, pc, cur_query, cur_result, cur_calls, trace, lookup_at,
              last_call, cache_op, ent_vars, gen_vars, brk_vars, prov_vars, fun_vars,
              retry_vars, ref_vars>>

\* a worker calls get_cached_result(q)
GetStart(w, q) ==
  /\ workers[w].pc = "idle"
  /\ workers' = [workers EXCEPT ![w] = [NoWorker EXCEPT !.pc = "get_test", !.query = q]]
  /\ UNCHANGED query_cache
  /\ ConcUnchanged

\* if cache_key in self._query_cache; a miss returns None
GetTest(w) ==
  /\ workers[w].pc = "get_test"
  /\ workers' = [workers EXCEPT
                   ![w].pc = IF get_cache_key(workers[w].query) \in DOMAIN query_cache
                               THEN "get_read" ELSE "idle"]
  /\ UNCHANGED query_cache
  /\ ConcUnchanged

\* result, timestamp = self._query_cache[cache_key]
GetRead(w) ==
  /\ workers[w].pc = "get_read"
  /\ LET cache_key == get_cache_key(workers[w].query)
     IN  workers' = IF cache_key \in DOMAIN query_cache
                      THEN [workers EXCEPT ![w].pc = "get_valid",
                                           ![w].timestamp = query_cache[cache_key].timestamp]
                      ELSE [workers EXCEPT ![w].pc = "raised", ![w].raised = "KeyError"]
  /\ UNCHANGED query_cache
  /\ ConcUnchanged

\* if self._is_cache_valid(timestamp): return result.copy()
GetValid(w) ==
  /\ workers[w].pc = "get_valid"
  /\ workers' = [workers EXCEPT
                   ![w].pc = IF is_cache_valid(workers[w].timestamp, now, CacheTTL)
                               THEN "idle" ELSE "get_del"]
  /\ UNCHANGED query_cache
  /\ ConcUnchanged

\* del self._query_cache[cache_key]; return None
GetDel(w) ==
  /\ workers[w].pc = "get_del"
  /\ LET cache_key == get_cache_key(workers[w].query)
     IN  IF cache_key \in DOMAIN query_cache
           THEN /\ query_cache' = Remove(query_cache, cache_key)
                /\ workers' = [workers EXCEPT ![w].pc = "idle"]
           ELSE /\ workers' = [workers EXCEPT ![w].pc = "raised", ![w].raised = "KeyError"]
                /\ UNCHANGED query_cache
  /\ ConcUnchanged

\* a worker calls cache_result(q, r): one store into the dictionary
WorkerPut(w, q) ==
  /\ workers[w].pc = "idle"
  /\ query_cache' = cache_result(query_cache, q, ConcResult, now)
  /\ UNCHANGED workers
  /\ ConcUnchanged

\* a worker calls clear_expired(): current_time is read and the iteration
\* over self._query_cache.items() starts
ClearStart(w) ==
  /\ workers[w].pc = "idle"
  /\ workers' = [workers EXCEPT
                   ![w] = [NoWorker EXCEPT !.pc = "clear_iter",
                                           !.current_time = now,
                                           !.size = Cardinality(DOMAIN query_cache)]]
  /\ UNCHANGED query_cache
  /\ ConcUnchanged

\* the iteration goes on: a dictionary whose size changed meanwhile raises
\* RuntimeError, otherwise expired_query_keys is complete
ClearIter(w) ==
  /\ workers[w].pc = "clear_iter"
  /\ LET expired == {k \in DOMAIN query_cache :
                       workers[w].current_time - query_cache[k].timestamp >= CacheTTL}
     IN  workers' =
           IF Cardinality(DOMAIN query_cache) # workers[w].size
             THEN [workers EXCEPT ![w].pc = "raised", ![w].raised = "RuntimeError"]
           ELSE [workers EXCEPT ![w].pc = IF expired = {} THEN "idle" ELSE "clear_del",
                                ![w].expired = expired]
  /\ UNCHANGED query_cache
  /\ ConcUnchanged

\* for key in expired_query_keys: del self._query_cache[key]
ClearDel(w) ==
  /\ workers[w].pc = "clear_del"
  /\ \E k \in workers[w].expired :
       LET left == workers[w].expired \ {k}
       IN  IF k \in DOMAIN query_cache
             THEN /\ query_cache' = Remove(query_cache, k)
                  /\ workers' = [workers EXCEPT
                                   ![w].expired = left,
                                   ![w].pc = IF left = {} THEN "idle" ELSE "clear_del"]
             ELSE /\ workers' = [workers EXCEPT ![w].pc = "raised",
                                                ![w].raised = "KeyError"]
                  /\ UNCHANGED query_cache
  /\ ConcUnchanged

\* time passes for the workers
ConcClock ==
  /\ now < MaxTicks * ResultTick
  /\ now' = now + ResultTick
  /\ UNCHANGED <<pipeline_vars, cache_op, ent_vars, gen_vars, brk_vars, prov_vars,
                 conc_vars, fun_vars, retry_vars, ref_vars>>

ConcNext ==
  \/ \E w \in CacheWorkers, q \in ConcQueries : GetStart(w, q)
  \/ \E w \in CacheWorkers : GetTest(w)
  \/ \E w \in CacheWorkers : GetRead(w)
  \/ \E w \in CacheWorkers : GetValid(w)
  \/ \E w \in CacheWorkers : GetDel(w)
  \/ \E w \in CacheWorkers, q \in ConcQueries : WorkerPut(w, q)
  \/ \E w \in CacheWorkers : ClearStart(w)
  \/ \E w \in CacheWorkers : ClearIter(w)
  \/ \E w \in CacheWorkers : ClearDel(w)
  \/ ConcClock

ConcSpec == ConcInit /\ [][ConcNext]_vars
\* ------------------------------------------- _is_simple_query on its own
\* The requests: a verb, a noun and an ending.
RouteVerbs == {<<"c","o","u","n","t">>, <<"C","o","u","n","t">>, <<"h","o","w"," ","m","a","n","y">>, <<"s","h","o","w">>, <<"l","i","s","t">>, <<"f","i","n","d">>, <<"s","e","l","e","c","t">>}
RouteNouns == {<<"c","u","s","t","o","m","e","r","s">>, <<"p","r","o","d","u","c","t","s">>, <<"o","r","d","e","r","s">>}
RouteEndings ==
  { <<>>, <<" ">>, <<" ","b","y"," ","r","e","g","i","o","n">>, <<" ","w","h","e","r","e"," ","c","i","t","y"," ","i","s"," ","x">>, <<" ","s","o","r","t","e","d"," ","b","y"," ","n","a","m","e">>, <<" ","a","n","d"," ","t","o","t","a","l">>,
    <<" ","j","o","i","n"," ","o","r","d","e","r","s">>, <<" ","p","l","e","a","s","e">> }
RouteQueries ==
  {v \o <<" ">> \o n \o e : v \in RouteVerbs, n \in RouteNouns, e \in RouteEndings}

RouteInit ==
  /\ now = 0
  /\ PipelineIdle /\ CacheIdle /\ EntIdle /\ GenIdle /\ BrkIdle /\ ProvIdle
  /\ ConcIdle /\ RetryIdle /\ RefIdle
  /\ fun_in \in {[name |-> "is_simple_query", query |-> q] : q \in RouteQueries}
  /\ fun_out = NoFunOut

\* self._is_simple_query(query)
IsSimpleQuery ==
  /\ ~fun_out.done
  /\ fun_out' = [done |-> TRUE, value |-> is_simple_query(fun_in.query)]
  /\ UNCHANGED <<now, pipeline_vars, cache_op, ent_vars, gen_vars, brk_vars, prov_vars,
                 conc_vars, retry_vars, ref_vars, fun_in>>

RouteNext == IsSimpleQuery

RouteSpec == RouteInit /\ [][RouteNext]_vars
\* ------------------------------------ decide_processing_approach on its own
\* intent_analysis: every complexity with every confidence, in tenths, and
\* one whose confidence is not a number
DecComplexities == {"simple", "medium", "complex", "unknown"}
DecIntents ==
  {Intent(c, t, TRUE) : c \in DecComplexities, t \in 0..10}
    \cup {Intent("medium", 0, FALSE)}

DecInit ==
  /\ now = 0
  /\ PipelineIdle /\ CacheIdle /\ EntIdle /\ GenIdle /\ BrkIdle /\ ProvIdle
  /\ ConcIdle /\ RetryIdle /\ RefIdle
  /\ fun_in \in {[name |-> "decide_processing_approach", intent |-> i, reply |-> r]
                   : i \in DecIntents, r \in DelegateReplies}
  /\ fun_out = NoFunOut

\* self.orchestrator.decide_processing_approach(query, intent_analysis,
\* schema_context)
DecideProcessingApproach ==
  /\ ~fun_out.done
  /\ LET d == decide_processing_approach_on(fun_in.intent, fun_in.reply, "full")
     IN  fun_out' = [done |-> TRUE, decision |-> d.decision, calls |-> d.calls,
                     exc |-> d.exc]
  /\ UNCHANGED <<now, pipeline_vars, cache_op, ent_vars, gen_vars, brk_vars, prov_vars,
                 conc_vars, retry_vars, ref_vars, fun_in>>

DecNext == DecideProcessingApproach

DecSpec == DecInit /\ [][DecNext]_vars
\* ---------------------------------- _iterative_refinement_approach, stepwise
MaxIterations == 3
RetrySchema == <<"T","(","a",")">>
RetryCandidates == {<<"S","E","L","E","C","T"," ","a">>, <<"-","-"," ","E","r","r","o","r">>}
RetryErrors == {<<"n","o"," ","c","o","l","u","m","n">>, <<"t","i","m","e","o","u","t">>}
RetryRowsets == {<<>>, <<<<"1">>>>}
DiagnosisReplies == {"valid", "invalid", "raises"}

\* str() of a non-negative integer
RECURSIVE str_int(_)
str_int(n) ==
  IF n < 10 THEN <<Digits[n + 1]>>
  ELSE str_int(n \div 10) \o <<Digits[(n % 10) + 1]>>

\* zip(sql_attempts, errors)
zip(a, b) ==
  [k \in 1..(IF Len(a) < Len(b) THEN Len(a) ELSE Len(b)) |-> <<a[k], b[k]>>]

\* "\n".join(parts)
RECURSIVE join_lines(_)
join_lines(parts) ==
  IF parts = <<>> THEN <<>>
  ELSE IF Len(parts) = 1 THEN parts[1]
  ELSE parts[1] \o <<"\n">> \o join_lines(Tail(parts))

\* f"SQL: {sql}\nError: {err}"
attempt_text(pair) == <<"S","Q","L",":"," ">> \o pair[1] \o <<"\n","E","r","r","o","r",":"," ">> \o pair[2]

retry_context_last_only(schema_context, sql_attempts, errors) ==
  IF sql_attempts # <<>>
  THEN schema_context \o <<"\n","\n","P","r","e","v","i","o","u","s"," ","a","t","t","e","m","p","t","s"," ","f","a","i","l","e","d",":","\n">>
         \o attempt_text(<<sql_attempts[Len(sql_attempts)], errors[Len(errors)]>>)
  ELSE schema_context

\* the context passed to the generator
retry_context(schema_context, sql_attempts, errors) ==
  IF sql_attempts # <<>>
  THEN schema_context \o <<"\n","\n","P","r","e","v","i","o","u","s"," ","a","t","t","e","m","p","t","s"," ","f","a","i","l","e","d",":","\n">>
         \o join_lines([k \in 1..Len(zip(sql_attempts, errors)) |->
                          attempt_text(zip(sql_attempts, errors)[k])])
  ELSE schema_context

range_has_next_inclusive(iteration, max_iterations) == iteration <= max_iterations

\* for iteration in range(max_iterations): is there another iteration
range_has_next(iteration, max_iterations) == iteration < max_iterations

analyze_failure_and_retry_unguarded(reply) ==
  CASE reply = "valid" ->
         [raised |-> FALSE, should_retry |-> TRUE, diagnosis |-> <<"w","r","o","n","g"," ","c","o","l","u","m","n">>]
    [] reply = "invalid" ->
         [raised |-> FALSE, should_retry |-> FALSE,
          diagnosis |-> <<"C","o","u","l","d"," ","n","o","t"," ","a","n","a","l","y","z","e"," ","f","a","i","l","u","r","e","s"," ","d","u","e"," ","t","o"," ","p","a","r","s","i","n","g"," ","e","r","r","o","r">>]
    [] OTHER ->
         [raised |-> TRUE, should_retry |-> FALSE, diagnosis |-> <<>>]

\* orchestrator.analyze_failure_and_retry, by the delegate's reply: a reply
\* that validates, one that does not, a call that raises
analyze_failure_and_retry(reply) ==
  CASE reply = "valid" ->
         [raised |-> FALSE, should_retry |-> TRUE, diagnosis |-> <<"w","r","o","n","g"," ","c","o","l","u","m","n">>]
    [] reply = "invalid" ->
         [raised |-> FALSE, should_retry |-> FALSE,
          diagnosis |-> <<"C","o","u","l","d"," ","n","o","t"," ","a","n","a","l","y","z","e"," ","f","a","i","l","u","r","e","s"," ","d","u","e"," ","t","o"," ","p","a","r","s","i","n","g"," ","e","r","r","o","r">>]
    [] OTHER ->
         [raised |-> FALSE, should_retry |-> FALSE, diagnosis |-> <<"A","n","a","l","y","s","i","s"," ","e","r","r","o","r",":"," ","d","o","w","n">>]

recorded_candidate_left_over(r) ==
  IF r.sql_attempts # <<>> THEN r.sql_attempts[Len(r.sql_attempts)]
  ELSE IF r.bound THEN r.sql_query ELSE <<>>

\* sql_query if 'sql_query' in locals() else ""
recorded_candidate(r) == IF r.bound THEN r.sql_query ELSE <<>>

RetryStart(max_iterations) ==
  [pc |-> IF range_has_next(0, max_iterations) THEN "generate" ELSE "diagnose",
   max_iterations |-> max_iterations, iteration |-> 0,
   sql_attempts |-> <<>>, errors |-> <<>>, sql_query |-> <<>>, bound |-> FALSE,
   calls |-> <<>>, result |-> [raised |-> FALSE, returned |-> FALSE]]

RetryInit ==
  /\ now = 0
  /\ PipelineIdle /\ CacheIdle /\ EntIdle /\ GenIdle /\ BrkIdle /\ ProvIdle
  /\ ConcIdle /\ FunIdle /\ RefIdle
  /\ retry \in {RetryStart(n) : n \in 0..MaxIterations}

RetryUnchanged ==
  UNCHANGED <<now, pipeline_vars, cache_op, ent_vars, gen_vars, brk_vars, prov_vars,
              conc_vars, fun_vars, ref_vars>>

\* sql_query = self.sql_generator.forward(query, context)
RetryGenerate ==
  /\ retry.pc = "generate"
  /\ \E candidate \in RetryCandidates :
       retry' = [retry EXCEPT
         !.pc = "execute",
         !.sql_query = candidate,
         !.bound = TRUE,
         !.calls = Append(@, [to |-> "generator",
                              arg |-> retry_context(RetrySchema, retry.sql_attempts,
                                                    retry.errors),
                              ret |-> candidate])]
  /\ RetryUnchanged

\* results = self.db_connection.execute_query(sql_query), which returns (a
\* text that is no statement is only ever rejected)
RetryExecuteReturns ==
  /\ retry.pc = "execute"
  /\ IsStatement(retry.sql_query)
  /\ \E results \in RetryRowsets :
       retry' = [retry EXCEPT
         !.pc = "done",
         !.calls = Append(@, [to |-> "executor", arg |-> retry.sql_query]),
         !.result = [raised |-> FALSE, returned |-> TRUE, success |-> TRUE,
                     sql |-> retry.sql_query, results |-> results,
                     schema_used |-> RetrySchema,
                     log |-> <<"I","t","e","r","a","t","i","v","e"," ","r","e","f","i","n","e","m","e","n","t"," ","s","u","c","c","e","s","s","f","u","l"," ","o","n"," ","i","t","e","r","a","t","i","o","n"," ">>
                               \o str_int(retry.iteration + 1) \o <<"."," ">>
                               \o str_int(Len(results)) \o <<" ","r","o","w","s"," ","r","e","t","u","r","n","e","d",".">>,
                     approach |-> "iterative_refinement",
                     iterations |-> retry.iteration + 1]]
  /\ RetryUnchanged

\* execute_query raises: the except branch and the next turn of the loop
RetryExecuteRaises ==
  /\ retry.pc = "execute"
  /\ \E e \in RetryErrors :
       retry' = [retry EXCEPT
         !.pc = IF range_has_next(retry.iteration + 1, retry.max_iterations)
                THEN "generate" ELSE "diagnose",
         !.calls = Append(@, [to |-> "executor", arg |-> retry.sql_query]),
         !.sql_attempts = Append(@, recorded_candidate(retry)),
         !.errors = Append(@, e),
         !.iteration = @ + 1]
  /\ RetryUnchanged

\* after the loop: analyze_failure_and_retry and the failure result
RetryDiagnose ==
  /\ retry.pc = "diagnose"
  /\ \E reply \in DiagnosisReplies :
       LET failure_analysis == analyze_failure_and_retry(reply)
       IN  retry' = [retry EXCEPT
             !.pc = "done",
             !.calls = Append(@, [to |-> "diagnosis",
                                  arg |-> <<retry.sql_attempts, retry.errors>>]),
             !.result =
               IF failure_analysis.raised
               THEN [raised |-> TRUE, returned |-> FALSE]
               ELSE [raised |-> FALSE, returned |-> TRUE, success |-> FALSE,
                     sql |-> IF retry.sql_attempts # <<>>
                             THEN retry.sql_attempts[Len(retry.sql_attempts)]
                             ELSE <<>>,
                     results |-> <<>>,
                     schema_used |-> RetrySchema,
                     log |-> <<"I","t","e","r","a","t","i","v","e"," ","r","e","f","i","n","e","m","e","n","t"," ","f","a","i","l","e","d"," ","a","f","t","e","r"," ">>
                               \o str_int(retry.max_iterations) \o <<" ","a","t","t","e","m","p","t","s","."," ">>
                               \o failure_analysis.diagnosis,
                     approach |-> "iterative_refinement",
                     iterations |-> retry.max_iterations,
                     failure_analysis |-> failure_analysis,
                     sql_attempts |-> retry.sql_attempts,
                     errors |-> retry.errors]]
  /\ RetryUnchanged

RetryNext ==
  \/ RetryGenerate
  \/ RetryExecuteReturns
  \/ RetryExecuteRaises
  \/ RetryDiagnose

RetrySpec == RetryInit /\ [][RetryNext]_vars
\* --------------------------------- should_use_airplane_mode on its own
\* The requests: a head and a tail.
AirHeads ==
  { <<"s","h","o","w"," ","c","u","s","t","o","m","e","r","s">>, <<"S","h","o","w"," ","A","l","l"," ","P","r","o","d","u","c","t","s">>, <<"l","i","s","t"," ","t","a","b","l","e","s">>, <<"h","o","w"," ","m","a","n","y"," ","o","r","d","e","r","s">>,
    <<"c","o","u","n","t"," ","c","u","s","t","o","m","e","r","s">>, <<"t","o","t","a","l"," ","s","a","l","e","s">>, <<"s","h","o","w"," ","s","a","l","e","s"," ","b","y"," ","r","e","g","i","o","n">>, <<"s","u","m"," ","o","f"," ","s","a","l","e","s">>,
    <<"d","e","s","c","r","i","b","e"," ","d","a","t","a","b","a","s","e">>, <<"h","e","l","l","o">>, <<"c","u","s","t","o","m","e","r","s">>, <<"c","a","l","c","u","l","a","t","e"," ","m","a","r","g","i","n">> }
AirTails ==
  { <<>>, <<" ">>, <<" ","w","i","t","h"," ","a"," ","s","u","b","q","u","e","r","y">>, <<" ","n","e","s","t","e","d"," "," ","q","u","e","r","y">>, <<" ","p","i","v","o","t">>, <<" ","r","e","c","u","r","s","i","v","e">>,
    <<" ","c","a","s","e"," ","w","h","e","n"," ","x">>, <<" ","i","f"," ","a"," ","t","h","e","n"," ","b"," ","e","l","s","e"," ","c">>, <<" ","w","i","t","h"," ","f","o","r","m","u","l","a">>, <<" ","p","l","e","a","s","e">> }
AirQueries == {h \o t : h \in AirHeads, t \in AirTails}

AirInit ==
  /\ now = 0
  /\ PipelineIdle /\ CacheIdle /\ EntIdle /\ GenIdle /\ BrkIdle /\ ProvIdle
  /\ ConcIdle /\ RetryIdle /\ RefIdle
  /\ fun_in \in {[name |-> "should_use_airplane_mode", query |-> q] : q \in AirQueries}
  /\ fun_out = NoFunOut

\* self.airplane_router.should_use_airplane_mode(query)
ShouldUseAirplaneMode ==
  /\ ~fun_out.done
  /\ fun_out' = [done |-> TRUE, value |-> should_use_airplane_mode(fun_in.query)]
  /\ UNCHANGED <<now, pipeline_vars, cache_op, ent_vars, gen_vars, brk_vars, prov_vars,
                 conc_vars, retry_vars, ref_vars, fun_in>>

AirNext == ShouldUseAirplaneMode

AirSpec == AirInit /\ [][AirNext]_vars
\* ----------------------- QueryResultCache and the identity of result objects
\* A result is a dict whose "results" is a list of rows; both are objects:
\* two names can refer to the same one.
MaxObjects == 4
MaxRows == 2
RefQueries == {Q_count_customers, Q_hello}

Dict(success, results) == [kind |-> "dict", success |-> success, results |-> results]
List(items) == [kind |-> "list", items |-> items]
Allocate(objects, object) == Append(objects, object)

\* dict.copy(): a new dict with the same values, the row list is shared
dict_copy(objects, d) == Allocate(objects, objects[d])

\* what a dict looks like to its reader: its fields and its rows
Contents(objects, d) ==
  [success |-> objects[d].success, results |-> objects[objects[d].results].items]

RefOp(kind, query, d) == [kind |-> kind, query |-> query, d |-> d]

RefInit ==
  /\ now = 0
  /\ PipelineIdle /\ CacheIdle /\ EntIdle /\ GenIdle /\ BrkIdle /\ ProvIdle
  /\ ConcIdle /\ FunIdle /\ RetryIdle /\ RefIdle

RefUnchanged ==
  UNCHANGED <<now, pipeline_vars, cache_op, ent_vars, gen_vars, brk_vars, prov_vars,
              conc_vars, fun_vars, retry_vars>>

\* a caller builds a result: a dict and its list of rows
NewResult ==
  /\ Len(heap) + 2 <= MaxObjects
  /\ heap' = heap \o <<List(<<"row">>), Dict(TRUE, Len(heap) + 1)>>
  /\ held' = held \cup {Len(heap) + 2}
  /\ ref_op' = RefOp("new", <<>>, Len(heap) + 2)
  /\ UNCHANGED ref_cache
  /\ RefUnchanged

\* cache_result(query, result)
CacheResultObject(q, d) ==
  /\ d \in held
  /\ Len(dict_copy(heap, d)) <= MaxObjects
  /\ heap' = dict_copy(heap, d)
  /\ ref_cache' = Put(ref_cache, get_cache_key(q),
                      [result |-> Len(dict_copy(heap, d)), timestamp |-> now])
  /\ ref_op' = RefOp("cache_result", q, d)
  /\ UNCHANGED held
  /\ RefUnchanged

\* get_cached_result(query)
GetCachedObject(q) ==
  LET cache_key == get_cache_key(q)
  IN  /\ IF cache_key \in DOMAIN ref_cache
           THEN IF is_cache_valid(ref_cache[cache_key].timestamp, now, CacheTTL)
                  THEN /\ Len(dict_copy(heap, ref_cache[cache_key].result)) <= MaxObjects
                       /\ heap' = dict_copy(heap, ref_cache[cache_key].result)
                       /\ held' = held \cup {Len(heap')}
                       /\ ref_op' = RefOp("hit", q, Len(heap'))
                       /\ UNCHANGED ref_cache
                  ELSE /\ ref_cache' = Remove(ref_cache, cache_key)
                       /\ ref_op' = RefOp("miss", q, 0)
                       /\ UNCHANGED <<heap, held>>
           ELSE /\ ref_op' = RefOp("miss", q, 0)
                /\ UNCHANGED <<heap, held, ref_cache>>
      /\ RefUnchanged

\* the caller assigns to a key of a dict it holds: result["success"] = False
CallerSetsField(d) ==
  /\ d \in held
  /\ heap[d].success
  /\ heap' = [heap EXCEPT ![d].success = FALSE]
  /\ ref_op' = RefOp("set_field", <<>>, d)
  /\ UNCHANGED <<ref_cache, held>>
  /\ RefUnchanged

\* the caller changes the row list of a dict it holds:
\* result["results"].append(row)
CallerAppendsRow(d) ==
  /\ d \in held
  /\ Len(heap[heap[d].results].items) < MaxRows
  /\ heap' = [heap EXCEPT ![heap[d].results].items = Append(@, "other row")]
  /\ ref_op' = RefOp("append_row", <<>>, d)
  /\ UNCHANGED <<ref_cache, held>>
  /\ RefUnchanged

\* time passes
RefClock ==
  /\ now < MaxTicks * ResultTick
  /\ now' = now + ResultTick
  /\ UNCHANGED <<pipeline_vars, cache_op, ent_vars, gen_vars, brk_vars, prov_vars,
                 conc_vars, fun_vars, retry_vars, ref_vars>>

RefNext ==
  \/ NewResult
  \/ \E q \in RefQueries, d \in 1..MaxObjects : CacheResultObject(q, d)
  \/ \E q \in RefQueries : GetCachedObject(q)
  \/ \E d \in 1..MaxObjects : CallerSetsField(d)
  \/ \E d \in 1..MaxObjects : CallerAppendsRow(d)
  \/ RefClock

RefSpec == RefInit /\ [][RefNext]_vars

\* ===================================================================== claims
\* the order of the stages of process_query_mode
StageRank(stage) ==
  CASE stage = "cache" -> 1
    [] stage = "fast" -> 2
    [] stage = "full" -> 3
    [] stage = "airplane" -> 4
    [] stage = "generic" -> 5

\* C1: whatever the metadata source, the generator, the executor and the
\* reasoning delegate do, process_query_mode does not raise; and when its last
\* stage has run without any stage succeeding, the record it returns has
\* success = FALSE and a non-empty log.
C1_ProcessNeverRaises ==
  /\ pc # "raised"
  /\ (pc = "done" /\ \A i \in DOMAIN trace : ~trace[i].success)
       => /\ trace[Len(trace)].stage \in {"airplane", "generic"}
          /\ cur_result.approach # "none"
          /\ ~cur_result.success
          /\ cur_result.log # ""

\* every collaborator was called and no stage succeeded
C1_AllStagesFailed ==
  /\ pc = "done"
  /\ Len(trace) = 4
  /\ \A i \in DOMAIN trace : ~trace[i].success
  /\ trace[4].stage = "airplane"
  /\ {c.to : c \in cur_calls} = {"MetadataSource", "Generator", "Executor", "Reasoning"}
  /\ ~cur_result.success

\* C2, as the specification states it: once full orchestration has failed,
\* the fallback's template query has been executed by the time
\* process_query_mode returns.
C2_FallbackAlwaysAttempted ==
  (pc = "done" /\ \E i \in DOMAIN trace : trace[i].stage = "full" /\ ~trace[i].success)
    => Call("airplane", "executor") \in cur_calls

\* C3, as the specification states it: when process_query_mode returns a
\* successful result, the result cache holds that result under the request's
\* key.
C3_SuccessIsStored ==
  (pc = "done" /\ cur_result.success)
    => /\ At(key_table, cur_query) \in DOMAIN query_cache
       /\ query_cache[At(key_table, cur_query)].result = cur_result

\* C4, as the specification states it: a request repeated within the ttl of
\* the previous call returns the previous call's result and calls neither the
\* generator nor the executor.
C4_RepeatIsServedFromCache ==
  ( /\ pc = "done"
    /\ last_call.any
    /\ At(key_table, last_call.query) = At(key_table, cur_query)
    /\ lookup_at - last_call.started_at < CacheTTL )
    => /\ cur_result = last_call.result
       /\ \A c \in cur_calls : c.to \notin {"Generator", "Executor"}

\* C5: the stages run in the order cache, fast path, full orchestration,
\* airplane mode, generic answer; only the last stage run can have succeeded
\* and process_query_mode returns right after it; a call is made only by a
\* stage that has run (full orchestration also runs inside the fast path, when
\* the fast path's own query could not be built or executed); and a cache hit
\* makes no call.
C5_StagesInOrder ==
  /\ \A i, j \in DOMAIN trace :
       i < j => StageRank(trace[i].stage) < StageRank(trace[j].stage)
  /\ \A i \in DOMAIN trace : trace[i].success => (i = Len(trace) /\ pc = "done")
  /\ \A c \in cur_calls :
       \E i \in DOMAIN trace :
         \/ trace[i].stage = c.stage
         \/ trace[i].stage = "fast" /\ c.stage = "full"
  /\ cur_result.approach = "fast_path" => \A c \in cur_calls : c.stage = "fast"
  /\ (trace # <<>> /\ trace[1].success) => cur_calls = {}

\* full orchestration succeeded after the fast path failed; nothing later ran
C5_StoppedAtFullOrchestration ==
  /\ pc = "done"
  /\ Len(trace) = 3
  /\ trace[2] = Ran("fast", FALSE)
  /\ trace[3] = Ran("full", TRUE)
  /\ Call("full", "executor") \in cur_calls

\* C6, as the specification states it: whatever the input text, the query
\* text the fallback generates is not empty.
C6_GeneratedTextIsNotEmpty ==
  gen_out.op # "none" => gen_out.sql # <<>>

\* C7: when airplane mode's query fails to execute, process_query_mode still
\* returns, with success = FALSE, the template text that was sent to the
\* executor and a non-empty log; airplane mode does not raise.
C7_FailedFallbackKeepsItsQuery ==
  (Len(trace) > 0 /\ trace[Len(trace)] = Ran("airplane", FALSE))
    => /\ pc = "done"
       /\ ~cur_result.success
       /\ cur_result.sql = airplane_sql(cur_query)
       /\ cur_result.sql # <<>>
       /\ cur_result.log # ""
       /\ Call("airplane", "executor") \in cur_calls

\* airplane mode ran and its query could not be executed
C7_FallbackExecutionFailed ==
  /\ pc = "done"
  /\ trace[Len(trace)] = Ran("airplane", FALSE)
  /\ cur_result.approach = "airplane_mode_failed"
  /\ Len(cur_result.sql) > 0

\* C8: get_cached_result returns the stored result exactly when the key has
\* an entry younger than the ttl, and leaves the cache as it was; otherwise it
\* returns nothing, an expired entry is removed, and no other entry changes.
C8_GetCachedResult ==
  cache_op.op = "get" =>
    LET key == get_cache_key(cache_op.query)
        before == cache_op.before
        fresh == key \in DOMAIN before
                   /\ cache_op.at - before[key].timestamp < CacheTTL
    IN  /\ cache_op.hit <=> fresh
        /\ fresh => cache_op.value = before[key].result /\ query_cache = before
        /\ ~fresh => /\ cache_op.value = NoResult
                     /\ key \notin DOMAIN query_cache
                     /\ DOMAIN query_cache = DOMAIN before \ {key}
                     /\ \A k \in DOMAIN query_cache : query_cache[k] = before[k]

\* an entry of age ttl was looked up: nothing returned, entry removed
C8_ExpiredEntryRemoved ==
  /\ cache_op.op = "get"
  /\ get_cache_key(cache_op.query) \in DOMAIN cache_op.before
  /\ cache_op.at - cache_op.before[get_cache_key(cache_op.query)].timestamp = CacheTTL
  /\ ~cache_op.hit
  /\ get_cache_key(cache_op.query) \notin DOMAIN query_cache

\* C9, as the specification states it: a get of an entry whose age is its
\* ttl or more returns None and removes the entry.
C9_ReadableOnlyBeforeTtl ==
  \A i \in DOMAIN ent_op.before :
    ( /\ ent_op.op = "get"
      /\ ent_op.before[i].key = ent_op.key
      /\ ent_op.at - ent_op.before[i].timestamp >= ent_op.before[i].ttl )
      => /\ ~ent_op.hit
         /\ ent_op.value = "None"
         /\ \A j \in DOMAIN ent_cache : ent_cache[j].key # ent_op.key

\* C10: a set of a new key into a full cache removes exactly one entry, one
\* whose last_access is the least, and appends the new entry; a get that hits
\* sets the entry's last_access to the time of the get and adds one to its
\* access_count, and changes nothing else.
C10_LeastRecentlyAccessedIsEvicted ==
  LET before == ent_op.before
      known == \E i \in DOMAIN before : before[i].key = ent_op.key
  IN  /\ (ent_op.op = "set" /\ ~known /\ Len(before) = MaxSize)
           => \E i \in DOMAIN before :
                /\ \A j \in DOMAIN before : before[i].last_access <= before[j].last_access
                /\ Len(ent_cache) = MaxSize
                /\ SubSeq(ent_cache, 1, MaxSize - 1) = Without(before, i)
                /\ ent_cache[MaxSize].key = ent_op.key
                /\ ent_cache[MaxSize].last_access = ent_op.at
      /\ (ent_op.op = "get" /\ ent_op.hit)
           => \E i \in DOMAIN before :
                /\ before[i].key = ent_op.key
                /\ ent_cache = [before EXCEPT ![i].last_access = ent_op.at,
                                              ![i].access_count = before[i].access_count + 1]

\* the entry evicted was read less recently than, but created after, one
\* that stays
C10_EvictedIsNotTheOldest ==
  /\ ent_op.op = "set"
  /\ Len(ent_op.before) = MaxSize
  /\ \A i \in DOMAIN ent_op.before : ent_op.before[i].key # ent_op.key
  /\ \E i, j \in DOMAIN ent_op.before :
       /\ \A k \in DOMAIN ent_cache : ent_cache[k].key # ent_op.before[i].key
       /\ \E k \in DOMAIN ent_cache : ent_cache[k] = ent_op.before[j]
       /\ ent_op.before[j].timestamp < ent_op.before[i].timestamp
       /\ ent_op.before[i].last_access < ent_op.before[j].last_access

\* C11: from CLOSED the breaker opens exactly on the failure that makes
\* failure_threshold failures with no success between them, and records the
\* time of that failure; a success sets failure_count to 0.
C11_OpensAtThreshold ==
  /\ (brk_op.kind = "failure" /\ brk_op.before.state = "CLOSED")
       => /\ breaker.failure_count = brk_op.streak
          /\ (breaker.state = "OPEN") <=> (brk_op.streak = FailureThreshold)
          /\ breaker.state \in {"OPEN", "CLOSED"}
          /\ breaker.last_failure_time = brk_op.at
  /\ brk_op.kind = "success" => breaker.failure_count = 0
  /\ breaker.state = "CLOSED" => brk_op.streak < FailureThreshold

\* the failure that opened the breaker
C11_ThresholdReached ==
  /\ brk_op.kind = "failure"
  /\ brk_op.before.state = "CLOSED"
  /\ brk_op.before.failure_count = FailureThreshold - 1
  /\ breaker.state = "OPEN"
  /\ breaker.last_failure_time = now

\* C12: a call that finds the breaker OPEN before recovery_timeout has
\* elapsed raises the circuit-open error at once: the wrapped function is not
\* entered and the breaker is left as it was.
C12_OpenRejects ==
  ( /\ brk_op.kind \in {"admit", "reject"}
    /\ brk_op.before.state = "OPEN"
    /\ brk_op.at - brk_op.before.last_failure_time < RecoveryTimeout )
    => /\ brk_op.kind = "reject"
       /\ breaker = brk_op.before
       /\ threads[brk_op.caller].pc = "idle"
       /\ threads[brk_op.caller].outcome = "circuit_open"

\* a call was rejected half a timeout after the last failure
C12_RejectedWhileOpen ==
  /\ brk_op.kind = "reject"
  /\ brk_op.at - brk_op.before.last_failure_time = BreakerTick
  /\ threads[brk_op.caller].outcome = "circuit_open"

\* C13: a call that finds the breaker OPEN once recovery_timeout has elapsed
\* sets HALF_OPEN and enters the wrapped function as the probe; when the
\* probe returns the breaker is CLOSED with failure_count 0.
C13_ProbeAfterTimeout ==
  /\ ( /\ brk_op.kind \in {"admit", "reject"}
       /\ brk_op.before.state = "OPEN"
       /\ brk_op.at - brk_op.before.last_failure_time >= RecoveryTimeout )
       => /\ brk_op.kind = "admit"
          /\ breaker.state = "HALF_OPEN"
          /\ threads[brk_op.caller].pc = "running"
          /\ threads[brk_op.caller].probe
  /\ (brk_op.kind = "success" /\ brk_op.before.state = "HALF_OPEN")
       => breaker.state = "CLOSED" /\ breaker.failure_count = 0

\* the probe returned and closed the breaker
C13_ProbeSucceeded ==
  /\ brk_op.kind = "success"
  /\ brk_op.before.state = "HALF_OPEN"
  /\ threads[brk_op.caller].probe
  /\ breaker.state = "CLOSED"

\* C14: when the probe raises, the breaker is OPEN again and
\* last_failure_time is the time of that failure; while the breaker is OPEN
\* and recovery_timeout has not elapsed since, no caller is in the wrapped
\* function.
C14_FailedProbeReopens ==
  /\ (brk_op.kind = "failure" /\ brk_op.before.state = "HALF_OPEN")
       => /\ breaker.state = "OPEN"
          /\ breaker.last_failure_time = brk_op.at
  /\ (breaker.state = "OPEN" /\ now - breaker.last_failure_time < RecoveryTimeout)
       => \A c \in Callers : threads[c].pc # "running"

\* the probe failed later than the failure that had opened the breaker
C14_ProbeFailed ==
  /\ brk_op.kind = "failure"
  /\ brk_op.before.state = "HALF_OPEN"
  /\ brk_op.before.last_failure_time < brk_op.at
  /\ breaker.state = "OPEN"

\* C15: at most one caller is in the wrapped function at a time; while the
\* breaker is HALF_OPEN that caller is the one probe.
C15_OneProbe ==
  /\ Cardinality({c \in Callers : threads[c].pc = "running"}) <= 1
  /\ breaker.state = "HALF_OPEN"
       => /\ \E c \in Callers : threads[c].pc = "running" /\ threads[c].probe
          /\ \A c \in Callers : threads[c].pc = "running" => lock = c

\* two callers waited when recovery_timeout had elapsed; one became the probe
C15_OneOfTwoAdmitted ==
  /\ breaker.state = "HALF_OPEN"
  /\ \E c, d \in Callers :
       /\ threads[c].pc = "running" /\ threads[c].probe
       /\ threads[d].pc = "waiting" /\ ~threads[d].during_probe

\* C16, as the specification states it: a caller that arrives while the
\* probe is in flight does not get to the wrapped function.
C16_ArrivalsDuringProbeFailFast ==
  \A c \in Callers : threads[c].during_probe => threads[c].pc # "running"

\* C17: the state of the breaker changes only CLOSED -> OPEN, OPEN ->
\* HALF_OPEN, HALF_OPEN -> CLOSED and HALF_OPEN -> OPEN, and only in a step
\* of a call.
C17_StateMachine ==
  [][ breaker'.state # breaker.state
        => /\ <<breaker.state, breaker'.state>> \in
                { <<"CLOSED", "OPEN">>, <<"OPEN", "HALF_OPEN">>,
                  <<"HALF_OPEN", "CLOSED">>, <<"HALF_OPEN", "OPEN">> }
           /\ brk_op'.kind \in {"admit", "success", "failure"}
           /\ threads'[brk_op'.caller] # threads[brk_op'.caller] ]_vars

\* the breaker closed after a failed and then a successful probe: all four
\* transitions were taken
C17_AllTransitionsTaken ==
  /\ breaker.state = "CLOSED"
  /\ brk_op.kind = "success"
  /\ brk_op.before.state = "HALF_OPEN"
  /\ brk_op.before.failure_count > FailureThreshold

\* C18, as the specification states it: _get_schema_cached never returns
\* an empty table list.
C18_NeverEmptySchema ==
  prov_op.kind \in {"hit_return", "miss_return"} => prov_op.returned # EmptyList

\* C19, as the specification states it: when the lookup found an expired
\* entry and the load fails, the expired value (or the value that replaced
\* it in the cache) is returned.
C19_StaleValueReturned ==
  (prov_op.kind = "miss_return" /\ prov_op.raised /\ prov_op.expired # "None")
    => \/ prov_op.returned = prov_op.expired
       \/ /\ IndexOf(ent_cache, SchemaKey) # 0
          /\ prov_op.returned = ent_cache[IndexOf(ent_cache, SchemaKey)].data

C21_NoCacheOperationRaises ==
  \A w \in CacheWorkers : workers[w].raised = "none"

\* C22, as the specification states it: once the approach decision is to
\* ask for clarification, process_query_mode returns that result: no further
\* stage runs for the request.
C22_ClarifyReturnsAtOnce ==
  cur_result.clarification_needed => pc = "done"

\* C23: "count customers" misses the empty cache and goes to the fast path;
\* when the fast path got the tables and its execution succeeded (it did not
\* fall back to full processing), the request is done with success, approach
\* "fast_path" and the count template on the customer table, without a
\* generator call.
C23_CountCustomersFastPath ==
  cur_query = Q_count_customers
    => /\ trace = <<Ran("cache", FALSE)>> => pc = "fast"
       /\ ( /\ Len(trace) = 2
            /\ trace[2].stage = "fast"
            /\ \A c \in cur_calls : c.stage = "fast" )
            => /\ pc = "done"
               /\ cur_result.success
               /\ cur_result.approach = "fast_path"
               /\ cur_result.sql = <<"S","E","L","E","C","T"," ","C","O","U","N","T","(","*",")"," ","A","S"," ","c","o","u","n","t"," ","F","R","O","M"," ","S","a","l","e","s","L","T",".","C","u","s","t","o","m","e","r">>
               /\ Call("fast", "executor") \in cur_calls
               /\ Call("fast", "generator") \notin cur_calls

\* "count customers" was answered by the fast path
C23_AnsweredByFastPath ==
  /\ cur_query = Q_count_customers
  /\ pc = "done"
  /\ trace = <<Ran("cache", FALSE), Ran("fast", TRUE)>>
  /\ cur_result.approach = "fast_path"
  /\ cur_result.success

\* two texts that differ only in letter case and in leading or trailing
\* whitespace: between their margins they have the same letters
C24_Margin(a) == {i \in DOMAIN a : \A j \in 1..i : a[j] \in Whitespace}
C24_Tail(a) == {i \in DOMAIN a : \A j \in i..Len(a) : a[j] \in Whitespace}
C24_SameLetter(c, d) ==
  \/ c = d
  \/ \E i \in DOMAIN UpperLetters :
       {c, d} = {UpperLetters[i], LowerLetters[i]}
C24_SameText(a, b) ==
  LET ca == DOMAIN a \ (C24_Margin(a) \cup C24_Tail(a))
      cb == DOMAIN b \ (C24_Margin(b) \cup C24_Tail(b))
      sa == Cardinality(C24_Margin(a))
      sb == Cardinality(C24_Margin(b))
  IN  /\ Cardinality(ca) = Cardinality(cb)
      /\ \A i \in ca : C24_SameLetter(a[i], b[i - sa + sb])

\* C24: a result stored for one text is returned by get_cached_result for
\* every text that differs from it only in case and outer whitespace, and a
\* get hits exactly when a valid entry was stored for such a text.
C24_KeyIgnoresCaseAndMargins ==
  /\ cache_op.op = "put"
       => \A q \in CacheQueries :
            C24_SameText(q, cache_op.query)
              => LET got == get_cached_result(query_cache, q, cache_op.at, CacheTTL)
                 IN  got.hit /\ got.value = cache_op.value
  /\ cache_op.op = "get"
       => ( cache_op.hit
              <=> \E q \in CacheQueries :
                    /\ C24_SameText(q, cache_op.query)
                    /\ get_cache_key(q) \in DOMAIN cache_op.before
                    /\ cache_op.at - cache_op.before[get_cache_key(q)].timestamp
                         < CacheTTL )

\* a get of "count customers" hit the only entry of the cache, the one under
\* the key of "  Count Customers "
C24_ServedForOtherSpelling ==
  /\ cache_op.op = "get"
  /\ cache_op.hit
  /\ cache_op.query = Q_count_customers
  /\ C24_SameText(Q_count_customers, Q_Count_Customers)
  /\ ~C24_SameText(Q_count_customers, Q_hello)
  /\ DOMAIN cache_op.before = {get_cache_key(Q_Count_Customers)}

\* the complex markers that occur in the requests, and their occurrence in
\* the normalised (lower-cased, trimmed) text
C25_Markers == {<<"b","y"," ">>, <<"w","h","e","r","e">>, <<"s","o","r","t","e","d"," ","b","y">>, <<"t","o","t","a","l">>, <<"j","o","i","n">>}
C25_Occurs(marker, text) ==
  \E i \in 1..(Len(text) - Len(marker) + 1) :
    SubSeq(text, i, i + Len(marker) - 1) = marker
C25_HasComplexMarker(text) ==
  \E marker \in C25_Markers : C25_Occurs(marker, Strip(Lower(text)))

C26_Decided == fun_out.done /\ fun_in.name = "decide_processing_approach"
C26_Rows ==
  /\ (fun_in.intent.complexity = "simple" /\ fun_in.intent.confidence > 7)
       => /\ fun_out.decision.approach = "direct_generation"
          /\ fun_out.decision.expected_iterations = 1
  /\ fun_in.intent.complexity = "complex"
       => /\ fun_out.decision.approach = "iterative_refinement"
          /\ fun_out.decision.expected_iterations = 3

\* C26, as the specification states it: simple with high confidence gives
\* direct generation with 1 iteration and complex gives iterative refinement
\* with 3 iterations.
C26_ComplexYieldsIterative ==
  (C26_Decided /\ ~fun_out.exc) => C26_Rows

\* C26, amended: when the confidence is at least 0.3 and the complexity is
\* not "unknown", the decision is made without the delegate, from the
\* complexity and the confidence: simple above 0.7 gives direct generation
\* with 1 iteration, complex gives iterative refinement with 3 iterations.
C26_RuleBasedDecision ==
  ( /\ C26_Decided
    /\ fun_in.intent.numeric
    /\ fun_in.intent.confidence >= 3
    /\ fun_in.intent.complexity # "unknown" )
    => /\ ~fun_out.exc
       /\ fun_out.calls = {}
       /\ fun_out.decision.is_int
       /\ C26_Rows

\* a complex request with confidence 0.3 was given iterative refinement
\* while the delegate's reply proposed direct generation
C26_ComplexAtThreshold ==
  /\ C26_Decided
  /\ fun_in.intent = Intent("complex", 3, TRUE)
  /\ fun_in.reply.decision.approach = "direct_generation"
  /\ fun_out.decision = Decision("iterative_refinement", 3, TRUE)

\* C27: the delegate is called exactly when the confidence is below 0.3 or
\* the complexity is "unknown"; a call that raises or a reply that does not
\* validate gives the fallback approach, and a call of the delegate never
\* makes decide_processing_approach raise.
C27_DelegateOnlyWhenAmbiguous ==
  (fun_out.done /\ fun_in.name = "decide_processing_approach")
    => /\ (Call("full", "delegate") \in fun_out.calls)
            <=> /\ fun_in.intent.numeric
                /\ \/ fun_in.intent.confidence < 3
                   \/ fun_in.intent.complexity = "unknown"
       /\ Call("full", "delegate") \in fun_out.calls
            => /\ ~fun_out.exc
               /\ (~fun_in.reply.ok \/ ~fun_in.reply.valid)
                    => fun_out.decision = Decision("direct_generation", 2, TRUE)
               /\ (fun_in.reply.ok /\ fun_in.reply.valid)
                    => fun_out.decision = fun_in.reply.decision

\* the delegate was called for a confident "unknown" request and raised
C27_DelegateFailed ==
  /\ fun_out.done
  /\ fun_in.name = "decide_processing_approach"
  /\ fun_in.intent = Intent("unknown", 9, TRUE)
  /\ ~fun_in.reply.ok
  /\ Call("full", "delegate") \in fun_out.calls
  /\ fun_out.decision = fallback_approach

RetryCallsTo(to) == {k \in 1..Len(retry.calls) : retry.calls[k].to = to}
C28_Succeeded == retry.pc = "done" /\ retry.result.returned /\ retry.result.success

\* C28: the loop makes at most max_iterations generator calls, each followed
\* by one executor call; the first execution that succeeds ends the loop with
\* approach "iterative_refinement" and the 1-based number of that attempt,
\* and the successful execution is the last call made.
C28_StopsAtFirstSuccess ==
  retry.pc # "idle" =>
    /\ Cardinality(RetryCallsTo("generator")) <= retry.max_iterations
    /\ Cardinality(RetryCallsTo("executor")) <= retry.max_iterations
    /\ \A k \in RetryCallsTo("executor") : k > 1 /\ retry.calls[k - 1].to = "generator"
    /\ \A k \in RetryCallsTo("generator") :
         k < Len(retry.calls) => retry.calls[k + 1].to = "executor"
    /\ C28_Succeeded =>
         /\ retry.result.approach = "iterative_refinement"
         /\ retry.result.iterations = Len(retry.errors) + 1
         /\ retry.result.iterations = Cardinality(RetryCallsTo("executor"))
         /\ retry.result.iterations <= retry.max_iterations
         /\ retry.calls[Len(retry.calls)] = [to |-> "executor", arg |-> retry.result.sql]
         /\ Len(retry.calls) = 2 * retry.result.iterations

\* the second of three allowed attempts succeeded
C28_SecondAttemptSucceeded ==
  /\ C28_Succeeded
  /\ retry.max_iterations = 3
  /\ retry.result.iterations = 2
  /\ Len(retry.calls) = 4

\* the least position from `from` on at which `piece` occurs in `text`, or 0
RECURSIVE C29_Find(_, _, _)
C29_Find(piece, text, from) ==
  IF from + Len(piece) - 1 > Len(text) THEN 0
  ELSE IF SubSeq(text, from, from + Len(piece) - 1) = piece THEN from
  ELSE C29_Find(piece, text, from + 1)
\* the pieces occur in `text` one after the other, from `from` on
RECURSIVE C29_InOrder(_, _, _)
C29_InOrder(pieces, text, from) ==
  IF pieces = <<>> THEN TRUE
  ELSE LET at == C29_Find(Head(pieces), text, from)
       IN  at # 0 /\ C29_InOrder(Tail(pieces), text, at + Len(Head(pieces)))
\* candidate 1, error 1, ..., candidate n, error n
C29_History(n) ==
  [k \in 1..(2 * n) |-> IF k % 2 = 1 THEN retry.sql_attempts[(k + 1) \div 2]
                       ELSE retry.errors[k \div 2]]

\* C29: the context of the first generator call is the schema context alone,
\* and the context of attempt i starts with the schema context and then
\* holds the candidate and the error of every attempt 1..i-1, in that order.
C29_ContextHoldsAllFailures ==
  retry.pc # "idle" =>
    \A i \in 1..Cardinality(RetryCallsTo("generator")) :
      LET context == retry.calls[2 * i - 1].arg
      IN  /\ retry.calls[2 * i - 1].to = "generator"
          /\ i = 1 => context = RetrySchema
          /\ i > 1 =>
               /\ SubSeq(context, 1, Len(RetrySchema)) = RetrySchema
               /\ C29_InOrder(C29_History(i - 1), context, Len(RetrySchema) + 1)

\* a third attempt was generated after two different failures
C29_ThirdAttempt ==
  /\ retry.pc # "idle"
  /\ Cardinality(RetryCallsTo("generator")) = 3
  /\ retry.sql_attempts[1] # retry.sql_attempts[2]
  /\ retry.errors[1] # retry.errors[2]

\* C30: when every one of the max_iterations attempts has failed, the
\* diagnosis is called exactly once, after the last attempt, and the loop
\* returns success False with all max_iterations candidates and errors, as
\* they were executed, whatever the diagnosis call did; before that, and
\* after a success, the diagnosis is not called.
C30_DiagnosedOnceOnExhaustion ==
  retry.pc # "idle" =>
    /\ (retry.pc = "done" /\ Len(retry.errors) = retry.max_iterations) =>
         /\ RetryCallsTo("diagnosis") = {Len(retry.calls)}
         /\ ~retry.result.raised
         /\ retry.result.returned
         /\ retry.result.success = FALSE
         /\ retry.result.sql_attempts = retry.sql_attempts
         /\ retry.result.errors = retry.errors
         /\ Len(retry.result.sql_attempts) = retry.max_iterations
         /\ Len(retry.result.errors) = retry.max_iterations
         /\ \A k \in 1..retry.max_iterations :
              retry.calls[2 * k] = [to |-> "executor", arg |-> retry.result.sql_attempts[k]]
    /\ (retry.pc # "done" \/ Len(retry.errors) < retry.max_iterations) =>
         RetryCallsTo("diagnosis") = {}

\* three attempts failed and the diagnosis call raised
C30_DiagnosisUnavailable ==
  /\ retry.pc = "done"
  /\ retry.max_iterations = 3
  /\ Len(retry.errors) = 3
  /\ retry.result.returned
  /\ retry.result.failure_analysis.diagnosis = <<"A","n","a","l","y","s","i","s"," ","e","r","r","o","r",":"," ","d","o","w","n">>

C31_Text == Strip(Lower(fun_in.query))
C31_High ==
  \E k \in DOMAIN llm_required_patterns : ReSearch(llm_required_patterns[k], C31_Text)
C31_Low ==
  {k \in DOMAIN airplane_patterns : ReSearch(airplane_patterns[k].pattern, C31_Text)}

\* C31: a request that matches an llm_required pattern is rejected with
\* complexity "high" whatever airplane pattern it also matches; otherwise a
\* request that matches an airplane pattern is accepted with the category of
\* the first pattern of the table that matches; otherwise it is rejected
\* with complexity "unknown".
C31_HighPatternWins ==
  (fun_out.done /\ fun_in.name = "should_use_airplane_mode") =>
    /\ C31_High =>
          /\ ~fun_out.value.use
          /\ fun_out.value.complexity = "high"
    /\ (~C31_High /\ C31_Low # {}) =>
          /\ fun_out.value.use
          /\ \E k \in C31_Low :
                /\ fun_out.value.category = airplane_patterns[k].category
                /\ \A j \in C31_Low : k <= j
    /\ (~C31_High /\ C31_Low = {}) =>
          /\ ~fun_out.value.use
          /\ fun_out.value.complexity = "unknown"

\* "show customers with a subquery" matches a pattern of both kinds and was
\* rejected with complexity "high"
C31_BothKindsMatch ==
  /\ fun_out.done
  /\ fun_in.name = "should_use_airplane_mode"
  /\ fun_in.query = <<"s","h","o","w"," ","c","u","s","t","o","m","e","r","s"," ","w","i","t","h"," ","a"," ","s","u","b","q","u","e","r","y">>
  /\ C31_High
  /\ C31_Low # {}
  /\ fun_out.value.complexity = "high"

\* C32, as the specification states it: two consecutive generations by the
\* same operation for the same query and tables return the same text,
\* character for character.
C32_SameInputSameText ==
  [][ ( /\ gen_out.op # "none"
        /\ gen_in' = gen_in
        /\ gen_out'.op = gen_out.op )
        => gen_out'.sql = gen_out.sql ]_vars

\* C33: when the wrapped function has stopped failing and callers keep
\* arriving, an OPEN breaker is CLOSED again later on; and a call that is
\* rejected leaves the breaker, with the time of its last failure, as it was.
C33_OpenEventuallyCloses ==
  /\ (breaker.state = "OPEN") ~> (breaker.state = "CLOSED")
  /\ [][brk_op'.kind = "reject" => breaker' = breaker]_vars

\* the breaker closed at the end of the recovery timeout although a caller
\* had been rejected in the meantime
C33_ClosedAfterRejections ==
  /\ breaker.state = "CLOSED"
  /\ brk_op.kind = "success"
  /\ brk_op.before.state = "HALF_OPEN"
  /\ brk_op.at = brk_op.before.last_failure_time + RecoveryTimeout
  /\ \E c \in Callers : threads[c].outcome = "circuit_open"

\* C34, as the specification states it: when process_query_mode runs full
\* orchestration as its third step, full orchestration has not already run
\* for this call (its intent analysis has not been called yet).
C34_FullOrchestrationOnce ==
  [][ (pc = "full" /\ pc' # "full") => Call("full", "intent") \notin cur_calls ]_vars

\* C35: every entry of the result cache holds a result with success TRUE.
C35_OnlySuccessesStored ==
  \A k \in DOMAIN query_cache : query_cache[k].result.success

\* a call whose fast path and full orchestration both ran ended with a failed
\* result, and the cache has no entry for its request
C35_FailureNotStored ==
  /\ pc = "done"
  /\ ~cur_result.success
  /\ Len(trace) = 4
  /\ get_cache_key(cur_query) \notin DOMAIN query_cache

\* C36: the candidate recorded with the error of attempt k is the text the
\* generator returned in attempt k, and every recorded candidate has its
\* error.
C36_RecordedCandidateIsCurrent ==
  retry.pc # "idle" =>
    /\ Len(retry.sql_attempts) = Len(retry.errors)
    /\ \A k \in 1..Len(retry.sql_attempts) :
         /\ retry.calls[2 * k - 1].to = "generator"
         /\ retry.sql_attempts[k] = retry.calls[2 * k - 1].ret

\* the second attempt failed with another candidate than the first
C36_SecondCandidateDiffers ==
  /\ retry.pc # "idle"
  /\ Len(retry.sql_attempts) = 2
  /\ retry.sql_attempts[1] = <<"S","E","L","E","C","T"," ","a">>
  /\ retry.sql_attempts[2] = <<"-","-"," ","E","r","r","o","r">>

\* C37, as the specification states it: no executor call of the retry loop
\* has a text that starts with the generator's error marker "-- Error".
C37_ErrorTextNotExecuted ==
  retry.pc # "idle" =>
    \A k \in 1..Len(retry.calls) :
      retry.calls[k].to = "executor" => ~StartsWith(retry.calls[k].arg, <<"-","-"," ","E","r","r","o","r">>)

\* what get_cached_result would return for each stored key
C38_Stored == [k \in DOMAIN ref_cache |-> Contents(heap, ref_cache[k].result)]

\* C38, as the specification states it: a caller that changes a result it
\* passed to cache_result or got from get_cached_result, or the row list of
\* that result, leaves what the cache returns for every request as it was.
C38_CallerCannotChangeCache ==
  [][ ref_op'.kind \in {"set_field", "append_row"}
        => [k \in DOMAIN ref_cache' |-> Contents(heap', ref_cache'[k].result)] = C38_Stored ]_vars

\* C39: the schema cache never holds more than max_size entries, and no key
\* twice.
C39_AtMostMaxSize ==
  /\ Len(ent_cache) <= MaxSize
  /\ \A i, j \in DOMAIN ent_cache : ent_cache[i].key = ent_cache[j].key => i = j

\* a set of a third key found the cache full and left it full
C39_SetIntoFullCache ==
  /\ ent_op.op = "set"
  /\ Len(ent_op.before) = MaxSize
  /\ \A i \in DOMAIN ent_op.before : ent_op.before[i].key # ent_op.key
  /\ Len(ent_cache) = MaxSize
  /\ \E i \in DOMAIN ent_cache : ent_cache[i].key = ent_op.key

\* C40, as the specification states it: a set of a key that is present
\* leaves every entry of the other keys in the cache as it was.
C40_SetOfPresentKeyEvictsNothing ==
  (ent_op.op = "set" /\ \E i \in DOMAIN ent_op.before : ent_op.before[i].key = ent_op.key)
    => \A i \in DOMAIN ent_op.before :
         ent_op.before[i].key # ent_op.key
           => \E j \in DOMAIN ent_cache : ent_cache[j] = ent_op.before[i]
====
